---- MODULE Spec2Model ----
(***************************************************************************)
(* A model of the creador_tests conversion pipeline: the segmenter         *)
(* (pdf/segment.py), the classifier (parse/typify.py), the grading         *)
(* extractor (parse/grading.py), the flag detector (parse/flags.py) and    *)
(* the document assembler (cli.py, _parse_pdf).                            *)
(*                                                                         *)
(* Text model.  A normalized line is a record [txt, cap]: txt is the       *)
(* sequence of phrases the line is made of, cap the strings (tuples of     *)
(* characters) that the capture groups of a pattern anchored on the line   *)
(* capture.  A text is the sequence of its lines (the lines of the Python  *)
(* string, joined by "\n").  A substring test is a test for a phrase, a    *)
(* pattern is [lit, groups]: the phrase it looks for and the number of     *)
(* capture groups it declares.  Python's None is <<>>, a present value v   *)
(* is <<v>>.                                                               *)
(***************************************************************************)
EXTENDS Integers, Sequences, FiniteSets, TLC

VARIABLES
    pc,               \* position in the run: "segment", "loop", "done", or of a pure-function check
    _RULES,           \* the rule table loaded at import (rules-1.0.yaml)
    normalized_pages, \* cli.py:60, the normalized text of each page
    blocks,           \* cli.py:65, the blocks returned by segment_pages
    block_index,      \* cli.py:69, the position of the for loop over blocks (1-based)
    questions,        \* cli.py:66
    prev_q,           \* cli.py:67, None or the index in questions of the dict prev_q refers to
    exam_doc,         \* cli.py:124, None until built
    text_in,          \* input of a pure-function check
    result,           \* output of a pure-function check
    in_path,          \* cli.py:43, the name of the PDF _parse_pdf is given
    in_dir,           \* cli.py:166, the entries in_dir.iterdir() yields, in its order
    pdf_index,        \* cli.py:166, the position of the for loop over them (1-based)
    out_dir           \* cli.py:174-175, the JSON files written, in order

vars == <<pc, _RULES, normalized_pages, blocks, block_index, questions, prev_q,
          exam_doc, text_in, result, in_path, in_dir, pdf_index, out_dir>>

\* what only the batch command writes
batch_vars == <<in_dir, pdf_index, out_dir>>

None == <<>>
Some(v) == <<v>>

Min(a, b) == IF a < b THEN a ELSE b
Last(s) == s[Len(s)]
Front(s) == SubSeq(s, 1, Len(s) - 1)

----------------------------------------------------------------------------
(* Strings *)

Line(txt, cap) == [txt |-> txt, cap |-> cap]
EmptyLine == Line(<<>>, <<>>)

\* str.split("\n") of a normalized page: the empty string splits into one empty line
split(page_text) == IF page_text = <<>> THEN <<EmptyLine>> ELSE page_text

\* str.strip() of an accumulated text: normalized lines carry no outer whitespace, so
\* what is trimmed is the final "\n" and the empty lines at either end
RECURSIVE lstrip(_)
lstrip(text) ==
    IF text # <<>> /\ Head(text) = EmptyLine THEN lstrip(Tail(text)) ELSE text

RECURSIVE rstrip(_)
rstrip(text) ==
    IF text # <<>> /\ Last(text) = EmptyLine THEN rstrip(Front(text)) ELSE text

strip(text) == rstrip(lstrip(text))

IsDigit(c) == c \in {"0", "1", "2", "3", "4", "5", "6", "7", "8", "9"}

DigitVal(c) ==
    CASE c = "0" -> 0 [] c = "1" -> 1 [] c = "2" -> 2 [] c = "3" -> 3 [] c = "4" -> 4
      [] c = "5" -> 5 [] c = "6" -> 6 [] c = "7" -> 7 [] c = "8" -> 8 [] c = "9" -> 9

\* int(s) raises ValueError unless s is a run of digits (no sign or blank in the alphabet)
int_ok(s) == s # <<>> /\ \A i \in 1..Len(s) : IsDigit(s[i])

RECURSIVE int(_)
int(s) == IF s = <<>> THEN 0 ELSE int(Front(s)) * 10 + DigitVal(Last(s))

\* regex.match(line): the pattern is anchored at the start of the line; the match
\* object is the tuple of its groups
re_match(regex, line) ==
    IF line.txt # <<>> /\ Head(line.txt) = regex.lit
    THEN Some(SubSeq(line.cap, 1, Min(regex.groups, Len(line.cap))))
    ELSE None

----------------------------------------------------------------------------
(* pdf/segment.py *)

\* segment.py:29-35: the compiled primary markers, entries without a regex skipped
RECURSIVE CompileMarkers(_)
CompileMarkers(markers) ==
    IF markers = <<>> THEN <<>>
    ELSE IF Head(markers).regex # None
         THEN <<Head(markers).regex[1]>> \o CompileMarkers(Tail(markers))
         ELSE CompileMarkers(Tail(markers))

\* dict.get(key, default) on a section or key that may be missing
get(opt, default) == IF opt = None THEN default ELSE opt[1]

_PRIMARY_MARKERS(rules) ==
    CompileMarkers(get(get(rules.segmentation, [primary_markers |-> None]).primary_markers,
                       <<>>))

\* segment.py:56-64: the first pattern that matches decides (break); a capture that
\* is missing or is not an integer leaves match_num None
RECURSIVE match_num_from(_, _)
match_num_from(regexes, line) ==
    IF regexes = <<>> THEN None
    ELSE LET m == re_match(Head(regexes), line) IN
         IF m # None
         THEN IF Len(m[1]) >= 1 /\ int_ok(m[1][1]) THEN Some(int(m[1][1])) ELSE None
         ELSE match_num_from(Tail(regexes), line)

\* without the continue of segment.py:77: the marker line falls through into the text
segment_line_keeps_marker(rules, st, page_index, line) ==
    LET match_num == match_num_from(_PRIMARY_MARKERS(rules), line) IN
    IF match_num # None
    THEN [blocks |-> IF st.current_block # None
                     THEN Append(st.blocks,
                                 [st.current_block[1] EXCEPT !.text = strip(@)])
                     ELSE st.blocks,
          current_block |-> Some([number |-> match_num[1],
                                  text |-> <<line>>,
                                  pages |-> <<page_index>>])]
    ELSE IF st.current_block # None
    THEN [blocks |-> st.blocks,
          current_block |-> Some([st.current_block[1] EXCEPT
                                    !.text = Append(@, line),
                                    !.pages = IF Last(@) # page_index
                                              THEN Append(@, page_index) ELSE @])]
    ELSE st

\* without the test of segment.py:82: the page is recorded for every line
segment_line_records_every_page(rules, st, page_index, line) ==
    LET match_num == match_num_from(_PRIMARY_MARKERS(rules), line) IN
    IF match_num # None
    THEN [blocks |-> IF st.current_block # None
                     THEN Append(st.blocks,
                                 [st.current_block[1] EXCEPT !.text = strip(@)])
                     ELSE st.blocks,
          current_block |-> Some([number |-> match_num[1],
                                  text |-> <<>>,
                                  pages |-> <<page_index>>])]
    ELSE IF st.current_block # None
    THEN [blocks |-> st.blocks,
          current_block |-> Some([st.current_block[1] EXCEPT
                                    !.text = Append(@, line),
                                    !.pages = Append(@, page_index)])]
    ELSE st

\* segment.py:54-83: the body of the loop over lines; st = [blocks, current_block]
segment_line(rules, st, page_index, line) ==
    LET match_num == match_num_from(_PRIMARY_MARKERS(rules), line) IN
    IF match_num # None
    THEN [blocks |-> IF st.current_block # None
                     THEN Append(st.blocks,
                                 [st.current_block[1] EXCEPT !.text = strip(@)])
                     ELSE st.blocks,
          current_block |-> Some([number |-> match_num[1],
                                  text |-> <<>>,
                                  pages |-> <<page_index>>])]
    ELSE IF st.current_block # None
    THEN [blocks |-> st.blocks,
          current_block |-> Some([st.current_block[1] EXCEPT
                                    !.text = Append(@, line),
                                    !.pages = IF Last(@) # page_index
                                              THEN Append(@, page_index) ELSE @])]
    ELSE st

RECURSIVE segment_lines(_, _, _, _)
segment_lines(rules, st, page_index, lines) ==
    IF lines = <<>> THEN st
    ELSE segment_lines(rules, segment_line(rules, st, page_index, Head(lines)),
                       page_index, Tail(lines))

\* segment.py:52: enumerate(pages), page_index counted from 0
RECURSIVE segment_from(_, _, _, _)
segment_from(rules, st, pages, i) ==
    IF i > Len(pages) THEN st
    ELSE segment_from(rules, segment_lines(rules, st, i - 1, split(pages[i])),
                      pages, i + 1)

\* without segment.py:84-87: the block open at the end of the input is not appended
segment_pages_drops_last(rules, pages) ==
    segment_from(rules, [blocks |-> <<>>, current_block |-> None], pages, 1).blocks

\* segment.py:38-88
segment_pages(rules, pages) ==
    LET st == segment_from(rules, [blocks |-> <<>>, current_block |-> None], pages, 1) IN
    IF st.current_block # None
    THEN Append(st.blocks, [st.current_block[1] EXCEPT !.text = strip(@)])
    ELSE st.blocks

----------------------------------------------------------------------------
(* Substring and pattern search over a text *)

\* str.lower() of a phrase
Lower(p) ==
    CASE p = "Imagen" -> "imagen"
      [] p = "EFECTIVAMENTE" -> "efectivamente"
      [] p = "Efectivamente" -> "efectivamente"
      [] p = "No existe" -> "no existe"
      [] p = "Correcta" -> "correcta"
      [] p = "Incorrecta" -> "incorrecta"
      [] p = "Parcialmente correcta" -> "parcialmente correcta"
      [] p = "Seleccione una:" -> "seleccione una:"
      [] p = "Se puntua" -> "se puntua"
      [] p = "Pregunta" -> "pregunta"
      [] p = "Cada intento resta" -> "cada intento resta"
      [] p = "La respuesta correcta es:" -> "la respuesta correcta es:"
      [] p = "LA RESPUESTA CORRECTA ES:" -> "la respuesta correcta es:"
      [] p = "Las respuestas correctas son:" -> "las respuestas correctas son:"
      [] p = "LAS RESPUESTAS CORRECTAS SON:" -> "las respuestas correctas son:"
      [] p = "Respuesta:" -> "respuesta:"
      [] p = ".PDF" -> ".pdf"
      [] p = "IMAGEN" -> "imagen"
      [] p = "Figura" -> "figura"
      [] p = "[GRAFICO]" -> "[grafico]"
      [] p = "[FORMULA]" -> "[formula]"
      [] p = "[VIDEO]" -> "[video]"
      [] p = "Valor:" -> "valor:"
      [] OTHER -> p

SamePhrase(p, q, ignorecase) == IF ignorecase THEN Lower(p) = Lower(q) ELSE p = q

LineHas(line, s, ignorecase) ==
    \E j \in 1..Len(line.txt) : SamePhrase(line.txt[j], s, ignorecase)

\* s in text
contains(s, text) == \E i \in 1..Len(text) : LineHas(text[i], s, FALSE)

\* s.lower() in text.lower()
contains_lower(s, text) == \E i \in 1..Len(text) : LineHas(text[i], s, TRUE)

\* the line of the first match of re.search(pattern, text), 0 when there is none
search_line(regex, text, ignorecase) ==
    IF \E i \in 1..Len(text) : LineHas(text[i], regex.lit, ignorecase)
    THEN CHOOSE i \in 1..Len(text) :
             /\ LineHas(text[i], regex.lit, ignorecase)
             /\ \A k \in 1..(i - 1) : ~LineHas(text[k], regex.lit, ignorecase)
    ELSE 0

\* re.search(pattern, text): None, or the groups of the first match
re_search(regex, text, ignorecase) ==
    LET i == search_line(regex, text, ignorecase) IN
    IF i = 0 THEN None
    ELSE Some(SubSeq(text[i].cap, 1, Min(regex.groups, Len(text[i].cap))))

\* len(re.findall(pattern, text, re.MULTILINE)): the non-overlapping matches
RECURSIVE count_in_line(_, _)
count_in_line(txt, lit) ==
    IF txt = <<>> THEN 0
    ELSE (IF Head(txt) = lit THEN 1 ELSE 0) + count_in_line(Tail(txt), lit)

RECURSIVE findall_count(_, _)
findall_count(regex, text) ==
    IF text = <<>> THEN 0
    ELSE count_in_line(Head(text).txt, regex.lit) + findall_count(regex, Tail(text))

\* pattern.encode().decode("unicode_escape") (typify.py:49, 55; flags.py:48, 66, 75): an
\* escape written in the table becomes the character it names; "\b" becomes a
\* backspace, which is in no normalized text; a letter outside ASCII becomes the Latin-1
\* reading of its UTF-8 bytes ("<o'>" stands for o with an acute accent, "<A~><3>" for
\* the two characters its bytes decode to); any other pattern is left as it is
unicode_escape(pattern) ==
    [pattern EXCEPT !.lit = CASE @ = "\\u0046igura" -> "Figura"
                              [] @ = "\\bImagen\\b" -> "<BS>Imagen<BS>"
                              [] @ = "opci<o'>n" -> "opci<A~><3>n"
                              [] OTHER -> @]

----------------------------------------------------------------------------
(* parse/typify.py *)

\* typify.py:27-66; a condition is [op, arg, min_count, subs]: op is the key the dict
\* carries, arg the pattern (for contains, the substring is arg.lit)
RECURSIVE _match_condition(_, _)
_match_condition(text, condition) ==
    CASE condition.op = "contains" -> contains(condition.arg.lit, text)
      [] condition.op = "regex" ->
            re_search(unicode_escape(condition.arg), text, FALSE) # None
      [] condition.op = "regex_repeated" ->
            findall_count(unicode_escape(condition.arg), text)
                >= get(condition.min_count, 1)
      [] condition.op = "any" ->
            \E i \in 1..Len(condition.subs) : _match_condition(text, condition.subs[i])
      [] condition.op = "all" ->
            \A i \in 1..Len(condition.subs) : _match_condition(text, condition.subs[i])
      [] OTHER -> FALSE

\* the sort key of typify.py:85
priority_key(d) == get(d.priority, 0)

\* ties the other way round: what reversing an ascending sort gives
RECURSIVE insort_desc_reversed_ties(_, _)
insort_desc_reversed_ties(done, d) ==
    IF done = <<>> THEN <<d>>
    ELSE IF priority_key(Head(done)) > priority_key(d)
         THEN <<Head(done)>> \o insort_desc_reversed_ties(Tail(done), d)
         ELSE <<d>> \o done

\* sorted(..., reverse=True) is stable: equal keys keep their original order
RECURSIVE insort_desc(_, _)
insort_desc(done, d) ==
    IF done = <<>> THEN <<d>>
    ELSE IF priority_key(Head(done)) >= priority_key(d)
         THEN <<Head(done)>> \o insort_desc(Tail(done), d)
         ELSE <<d>> \o done

RECURSIVE sorted_desc_from(_, _)
sorted_desc_from(done, rest) ==
    IF rest = <<>> THEN done
    ELSE sorted_desc_from(insort_desc(done, Head(rest)), Tail(rest))

detectors_sorted(detectors) == sorted_desc_from(<<>>, detectors)

\* the fallback kind of the assembler given when nothing matches
RECURSIVE first_match_kind_fallback(_, _)
first_match_kind_fallback(dets, text) ==
    IF dets = <<>> THEN "none"
    ELSE LET conditions == get(Head(dets).when, <<>>) IN
         IF \A i \in 1..Len(conditions) : _match_condition(text, conditions[i])
         THEN get(Head(dets).kind, "none")
         ELSE first_match_kind_fallback(Tail(dets), text)

\* typify.py:86-90
RECURSIVE first_match_kind(_, _)
first_match_kind(dets, text) ==
    IF dets = <<>> THEN "unknown"
    ELSE LET conditions == get(Head(dets).when, <<>>) IN
         IF \A i \in 1..Len(conditions) : _match_condition(text, conditions[i])
         THEN get(Head(dets).kind, "unknown")
         ELSE first_match_kind(Tail(dets), text)

\* typify.py:69-90
detect_kind(rules, text) ==
    LET detectors == get(get(rules.typing, [detectors |-> None]).detectors, <<>>) IN
    first_match_kind(detectors_sorted(detectors), text)

----------------------------------------------------------------------------
(* parse/grading.py *)

\* s.replace(",", ".")
replace_comma(s) == [i \in 1..Len(s) |-> IF s[i] = "," THEN "." ELSE s[i]]

NoneGroup == <<"<None>">>   \* m.group(i) of a group that took no part in the match

DotCount(s) == Cardinality({i \in 1..Len(s) : s[i] = "."})
DotPos(s) == CHOOSE i \in 1..Len(s) : s[i] = "."
SignLen(s) == IF s # <<>> /\ s[1] \in {"-", "+"} THEN 1 ELSE 0
Unsigned(s) == SubSeq(s, SignLen(s) + 1, Len(s))

\* float(s) raises ValueError unless s is [sign] digits [. digits] with a digit in it
float_ok(s) ==
    LET u == Unsigned(s) IN
    /\ \A i \in 1..Len(u) : IsDigit(u[i]) \/ u[i] = "."
    /\ \E i \in 1..Len(u) : IsDigit(u[i])
    /\ DotCount(u) <= 1

\* a float is kept exactly, as [num, scale] with value num / 10^scale in lowest terms
RECURSIVE Reduce(_)
Reduce(f) ==
    IF f.scale > 0 /\ f.num % 10 = 0
    THEN Reduce([num |-> f.num \div 10, scale |-> f.scale - 1])
    ELSE f

float(s) ==
    LET u == Unsigned(s)
        neg == SignLen(s) = 1 /\ s[1] = "-"
        d == IF DotCount(u) = 0 THEN Len(u) + 1 ELSE DotPos(u)
        digits == SubSeq(u, 1, d - 1) \o SubSeq(u, d + 1, Len(u))
        mag == Reduce([num |-> int(digits), scale |-> Len(u) - Min(d, Len(u))])
    IN  [mag EXCEPT !.num = IF neg THEN 0 - @ ELSE @]

status_from_fixed_order(items, block_text) ==
    LET has(c) == \E i \in 1..Len(items) :
                      items[i][1] = c /\ contains(items[i][2], block_text)
    IN  IF has("correct") THEN Some("Correcta")
        ELSE IF has("partial") THEN Some("Parcialmente correcta")
        ELSE IF has("incorrect") THEN Some("Incorrecta")
        ELSE None

\* grading.py:41-51: dict order is the table's order; the first marker found ends
\* the loop, whatever its category
RECURSIVE status_from(_, _)
status_from(items, block_text) ==
    IF items = <<>> THEN None
    ELSE IF contains(Head(items)[2], block_text)
         THEN CASE Head(items)[1] = "correct" -> Some("Correcta")
                [] Head(items)[1] = "partial" -> Some("Parcialmente correcta")
                [] Head(items)[1] = "incorrect" -> Some("Incorrecta")
                [] OTHER -> None
         ELSE status_from(Tail(items), block_text)

\* grading.py:62-70 on a match object m (the tuple of its groups): the statements of
\* the try block in order, IndexError and ValueError caught, AttributeError not
score_from_match(m) ==
    IF Len(m) < 1 THEN [exc |-> None, score_awarded |-> None, score_max |-> None]
    ELSE IF m[1] = NoneGroup
    THEN [exc |-> Some("AttributeError"), score_awarded |-> None, score_max |-> None]
    ELSE IF Len(m) < 2 THEN [exc |-> None, score_awarded |-> None, score_max |-> None]
    ELSE IF m[2] = NoneGroup
    THEN [exc |-> Some("AttributeError"), score_awarded |-> None, score_max |-> None]
    ELSE LET awarded_str == replace_comma(m[1])
             max_str == replace_comma(m[2])
         IN  IF ~float_ok(awarded_str)
             THEN [exc |-> None, score_awarded |-> None, score_max |-> None]
             ELSE IF ~float_ok(max_str)
             THEN [exc |-> None, score_awarded |-> Some(float(awarded_str)),
                   score_max |-> None]
             ELSE [exc |-> None, score_awarded |-> Some(float(awarded_str)),
                   score_max |-> Some(float(max_str))]

\* grading.py:53-70
score_of(grading_config, block_text) ==
    LET score_pattern ==
            get(grading_config.score_regex, [awarded_max |-> None]).awarded_max
        match == IF score_pattern = None THEN None
                 ELSE re_search(score_pattern[1], block_text, TRUE)
    IN  IF match = None
        THEN [exc |-> None, score_awarded |-> None, score_max |-> None]
        ELSE score_from_match(match[1])

\* grading.py:72-86: the first pattern found in the text decides; the line kept is
\* the first line the pattern is found in
RECURSIVE penalty_from(_, _)
penalty_from(patterns, block_text) ==
    IF patterns = <<>> THEN None
    ELSE LET i == search_line(Head(patterns), block_text, TRUE) IN
         IF i # 0 THEN Some(block_text[i])
         ELSE penalty_from(Tail(patterns), block_text)

\* len(phrase); a phrase of the vocabulary that is as long as the feedback limit
FeedbackMaxLen == 500
LongPhrase == "(texto de 500 caracteres)"
PhraseLen(p) ==
    IF p = LongPhrase THEN FeedbackMaxLen
    ELSE IF p \in {"x", "a", "b", "c", "d", "e", ","} THEN 1
    ELSE 8

RECURSIVE SumLen(_)
SumLen(txt) == IF txt = <<>> THEN 0 ELSE PhraseLen(Head(txt)) + SumLen(Tail(txt))

LineLen(line) ==
    SumLen(line.txt) + (IF Len(line.txt) > 0 THEN Len(line.txt) - 1 ELSE 0)

RECURSIVE LinesLen(_)
LinesLen(text) == IF text = <<>> THEN 0 ELSE LineLen(Head(text)) + LinesLen(Tail(text))

\* len(text): the lines and the "\n" between them
len(text) == LinesLen(text) + (IF Len(text) > 0 THEN Len(text) - 1 ELSE 0)

\* grading.py:91-96
feedback_patterns ==
    << [lit |-> "Correcto!", groups |-> 0], [lit |-> "Incorrecto!", groups |-> 0],
       [lit |-> "Efectivamente", groups |-> 0], [lit |-> "No existe", groups |-> 0] >>

\* match.group(0).strip() of "<phrase>.*" under re.DOTALL: from the phrase to the
\* end of the text
feedback_span(regex, block_text) ==
    LET i == search_line(regex, block_text, TRUE)
        txt == block_text[i].txt
        j == CHOOSE j \in 1..Len(txt) :
                 /\ SamePhrase(txt[j], regex.lit, TRUE)
                 /\ \A k \in 1..(j - 1) : ~SamePhrase(txt[k], regex.lit, TRUE)
    IN  strip(<<Line(SubSeq(txt, j, Len(txt)), block_text[i].cap)>>
              \o SubSeq(block_text, i + 1, Len(block_text)))

\* grading.py:97-104: the break is taken only when the span is short enough
RECURSIVE feedback_from(_, _)
feedback_from(patterns, block_text) ==
    IF patterns = <<>> THEN None
    ELSE IF search_line(Head(patterns), block_text, TRUE) # 0
            /\ len(feedback_span(Head(patterns), block_text)) < FeedbackMaxLen
         THEN Some(feedback_span(Head(patterns), block_text))
         ELSE feedback_from(Tail(patterns), block_text)

\* grading.py:21-112; exc is the exception that leaves the function, None when it returns
extract_grading(rules, block_text) ==
    LET grading_config ==
            get(rules.grading,
                [status_markers |-> None, score_regex |-> None, penalty_text_regex |-> None])
        score == score_of(grading_config, block_text)
    IN  [exc |-> score.exc,
         grad |-> [status |-> status_from(get(grading_config.status_markers, <<>>),
                                          block_text),
                   score_awarded |-> score.score_awarded,
                   score_max |-> score.score_max,
                   penalty_rule_text |->
                       penalty_from(get(grading_config.penalty_text_regex, <<>>),
                                    block_text),
                   feedback |-> feedback_from(feedback_patterns, block_text)]]

----------------------------------------------------------------------------
(* parse/extract.py and the extractors, as far as the assembler reads their result *)

OptionKeys == {"a.", "b.", "c.", "d.", "e.", "A.", "B.", "C.", "D.", "E."}
Glyphs == {"[x]", "[ ]", "[v]", "[X]", "[V]"}   \* the check marks and boxes, as phrases
UserGlyphs == {"[x]", "[v]", "[V]"}             \* the marks of a chosen option
Announcements == {"La respuesta correcta es:", "Las respuestas correctas son:"}
SingularAnnouncement == "La respuesta correcta es:"
PluralAnnouncement == "Las respuestas correctas son:"

\* group(1).lower() of "([a-eA-E])\." on an option key
KeyLetter(tok) ==
    CASE tok \in {"a.", "A."} -> "a" [] tok \in {"b.", "B."} -> "b"
      [] tok \in {"c.", "C."} -> "c" [] tok \in {"d.", "D."} -> "d"
      [] tok \in {"e.", "E."} -> "e" [] OTHER -> ""

\* the first character of a phrase, lowered, when "[a-eA-E]" matches it; "" otherwise
FirstLetter(tok) ==
    CASE tok \in OptionKeys -> KeyLetter(tok)
      [] tok \in {"a", "A"} -> "a" [] tok \in {"b", "B", "Berlin"} -> "b"
      [] tok \in {"c", "C"} -> "c" [] tok \in {"d", "D"} -> "d"
      [] tok \in {"e", "E"} -> "e" [] OTHER -> ""

\* the letter that "\b([a-eA-E])\b" finds in a phrase, lowered; "" when it finds none
WordLetter(tok) ==
    CASE tok \in OptionKeys -> KeyLetter(tok)
      [] tok \in {"a", "A"} -> "a" [] tok \in {"b", "B"} -> "b"
      [] tok \in {"c", "C"} -> "c" [] tok \in {"d", "D"} -> "d"
      [] tok \in {"e", "E"} -> "e" [] OTHER -> ""

\* "^([a-eA-E])\." and "\nLa respuesta|\nLas respuestas" at the start of a line
StartsOption(line) == line.txt # <<>> /\ Head(line.txt) \in OptionKeys
StartsAnnouncement(line) == line.txt # <<>> /\ Head(line.txt) \in Announcements

RECURSIVE without_glyphs(_)
without_glyphs(txt) ==
    IF txt = <<>> THEN <<>>
    ELSE IF Head(txt) \in Glyphs THEN without_glyphs(Tail(txt))
         ELSE <<Head(txt)>> \o without_glyphs(Tail(txt))

\* the phrases of a run of lines, and the phrases of a text with the line of each
RECURSIVE join_txt(_)
join_txt(lines) == IF lines = <<>> THEN <<>> ELSE Head(lines).txt \o join_txt(Tail(lines))

RECURSIVE flat_from(_, _)
flat_from(text, i) ==
    IF i > Len(text) THEN <<>>
    ELSE [j \in 1..Len(text[i].txt) |-> [tok |-> text[i].txt[j], line |-> i]]
         \o flat_from(text, i + 1)

\* the first line from i on that is not empty, 0 when there is none ("\s*" runs over
\* the line ends after a key that ends its line)
RECURSIVE first_nonempty(_, _)
first_nonempty(text, i) ==
    IF i > Len(text) THEN 0
    ELSE IF text[i].txt # <<>> THEN i ELSE first_nonempty(text, i + 1)

\* the line at whose end the lazy group "(.+?)" stops: the first one followed by an
\* option line, by an announcement line or by the end of the text
RECURSIVE body_end(_, _)
body_end(text, k) ==
    IF k >= Len(text) \/ StartsOption(text[k + 1]) \/ StartsAnnouncement(text[k + 1])
    THEN k
    ELSE body_end(text, k + 1)

\* option_pattern.finditer(block_text): the key and the group 2 of each match, from
\* line i on; a match that ended on line k leaves the search at line k + 1
RECURSIVE option_matches(_, _)
option_matches(text, i) ==
    IF i > Len(text) THEN <<>>
    ELSE IF ~StartsOption(text[i]) THEN option_matches(text, i + 1)
    ELSE LET rest == Tail(text[i].txt)
             start == IF rest # <<>> THEN i ELSE first_nonempty(text, i + 1)
         IN  IF start = 0 THEN option_matches(text, i + 1)
             ELSE LET k == body_end(text, start) IN
                  <<[key |-> KeyLetter(Head(text[i].txt)),
                     text |-> rest \o join_txt(SubSeq(text, i + 1, k))]>>
                  \o option_matches(text, k + 1)

\* extract_single_choice.py:32-41, extract_multi_select.py:31-40: the glyphs are
\* removed and an option whose text is then empty is left out
RECURSIVE options_of(_)
options_of(matches) ==
    IF matches = <<>> THEN <<>>
    ELSE LET t == without_glyphs(Head(matches).text) IN
         (IF t # <<>> THEN <<[key |-> Head(matches).key, text |-> t]>> ELSE <<>>)
         \o options_of(Tail(matches))

extract_options(text) == options_of(option_matches(text, 1))

\* extract_single_choice.py:45-49: "La respuesta correcta es:\s*([a-eA-E])" under
\* re.IGNORECASE, the first place where the announcement is followed by such a letter
correct_singular(flat) ==
    LET hits == {j \in 1..(Len(flat) - 1) :
                    /\ SamePhrase(flat[j].tok, SingularAnnouncement, TRUE)
                    /\ FirstLetter(flat[j + 1].tok) # ""}
    IN  IF hits = {} THEN None
        ELSE Some(FirstLetter(flat[(CHOOSE j \in hits : \A k \in hits : j <= k) + 1].tok))

\* extract_single_choice.py:54-58: the group "([^\.\n]+)" after the first announcement
\* (any case) that is followed by text: it runs to the end of the line or to the first
\* full stop; the letters that stand alone in it, in order
RECURSIVE letters_until_dot(_, _, _)
letters_until_dot(flat, k, line) ==
    IF k > Len(flat) \/ flat[k].line # line THEN <<>>
    ELSE (IF WordLetter(flat[k].tok) # "" THEN <<WordLetter(flat[k].tok)>> ELSE <<>>)
         \o (IF flat[k].tok \in OptionKeys THEN <<>>
             ELSE letters_until_dot(flat, k + 1, line))

multi_keys(flat) ==
    LET hits == {j \in 1..(Len(flat) - 1) : SamePhrase(flat[j].tok, PluralAnnouncement, TRUE)}
    IN  IF hits = {} THEN None
        ELSE LET j == CHOOSE j \in hits : \A k \in hits : j <= k IN
             Some(letters_until_dot(flat, j + 1, flat[j + 1].line))

correct_of_keeps_all(block_text) ==
    LET flat == flat_from(block_text, 1)
        correct_match == correct_singular(flat)
    IN  IF correct_match # None THEN <<correct_match[1]>>
        ELSE IF contains(PluralAnnouncement, block_text) /\ multi_keys(flat) # None
             THEN multi_keys(flat)[1]
             ELSE <<>>

\* extract_single_choice.py:43-65
correct_of(block_text) ==
    LET flat == flat_from(block_text, 1)
        correct_match == correct_singular(flat)
        found ==
            IF correct_match # None THEN <<correct_match[1]>>
            ELSE IF contains(PluralAnnouncement, block_text)
                    /\ multi_keys(flat) # None /\ multi_keys(flat)[1] # <<>>
                 THEN <<multi_keys(flat)[1][1]>>
                 ELSE <<>>
    IN  IF Len(found) > 1 THEN SubSeq(found, 1, 1) ELSE found

\* extract_single_choice.py:69-73: "([a-eA-E])\.\s*[^\n]*[marks]", the leftmost key
\* with a mark after it on its line, or on the next line when the key ends its line
user_of(block_text) ==
    LET flat == flat_from(block_text, 1)
        marked(j) ==
            \E k \in (j + 1)..Len(flat) :
                /\ flat[k].tok \in UserGlyphs
                /\ \/ flat[k].line = flat[j].line
                   \/ flat[j + 1].line # flat[j].line /\ flat[k].line = flat[j + 1].line
        hits == {j \in 1..Len(flat) : KeyLetter(flat[j].tok) # "" /\ marked(j)}
    IN  IF hits = {} THEN <<>>
        ELSE <<KeyLetter(flat[CHOOSE j \in hits : \A k \in hits : j <= k].tok)>>

\* extract_single_choice.py:12-75
extract_single_choice(block_text) ==
    [options |-> extract_options(block_text),
     correct |-> correct_of(block_text),
     user |-> user_of(block_text)]

\* the run of digits of s that starts at position i
RECURSIVE DigitsRun(_, _)
DigitsRun(s, i) == IF i <= Len(s) /\ IsDigit(s[i]) THEN 1 + DigitsRun(s, i + 1) ELSE 0

\* what "([-+]?\d+[.,]?\d*)" captures at the start of s: None when no digit follows the
\* optional sign, else the sign, the digits, one separator if it is there and the
\* digits after it
number_prefix(s) ==
    LET sign == SignLen(s)
        whole == DigitsRun(s, sign + 1)
        sep == IF sign + whole + 1 <= Len(s) /\ s[sign + whole + 1] \in {".", ","}
               THEN 1 ELSE 0
        frac == DigitsRun(s, sign + whole + sep + 1)
    IN  IF whole = 0 THEN None ELSE Some(SubSeq(s, 1, sign + whole + sep + frac))

\* re.search of "<label>\s*([-+]?\d+[.,]?\d*)" under re.IGNORECASE, label one of lits:
\* group 1 at the first line that carries a label with a number after it (cap[1] of a
\* line is what is written after its label)
number_after(lits, text) ==
    LET hit(i) == /\ \E l \in lits : LineHas(text[i], l, TRUE)
                  /\ Len(text[i].cap) >= 1
                  /\ number_prefix(text[i].cap[1]) # None
        hits == {i \in 1..Len(text) : hit(i)}
    IN  IF hits = {} THEN None
        ELSE number_prefix(text[CHOOSE i \in hits : \A k \in hits : i <= k].cap[1])

decimal_separator_always_dot(expected_match) == "."

\* extract_numeric.py:25, 41-44
decimal_separator(expected_match) ==
    IF expected_match # None /\ \E i \in 1..Len(expected_match[1]) : expected_match[1][i] = ","
    THEN "," ELSE "."

\* extract_numeric.py:57-60: "redondea\s+a\s+(\d+)\s+decimal"
round_decimals(block_text) ==
    LET hits == {i \in 1..Len(block_text) :
                    /\ LineHas(block_text[i], "redondea a", TRUE)
                    /\ LineHas(block_text[i], "decimal", TRUE)
                    /\ Len(block_text[i].cap) >= 1 /\ int_ok(block_text[i].cap[1])}
    IN  IF hits = {} THEN None
        ELSE Some(int(block_text[CHOOSE i \in hits : \A k \in hits : i <= k].cap[1]))

\* extract_numeric.py:62-69
tolerance(block_text) ==
    LET tolerance_match == number_after({"tolerancia de"}, block_text) IN
    IF tolerance_match # None /\ float_ok(replace_comma(tolerance_match[1]))
    THEN Some(float(replace_comma(tolerance_match[1])))
    ELSE None

\* extract_numeric.py:12-71
extract_numeric(block_text) ==
    LET expected_match == number_after({SingularAnnouncement}, block_text) IN
    [expected |-> IF expected_match # None THEN <<expected_match[1]>> ELSE <<>>,
     user |-> number_after({"Respuesta:", "Valor:"}, block_text),
     numeric_format |-> [decimal_separator |-> decimal_separator(expected_match),
                         round_decimals |-> round_decimals(block_text),
                         tolerance |-> tolerance(block_text)]]

\* extract_cloze_labeled_blanks.py. A label with its colon is one phrase ("TP:"); the
\* texts of the runs hold no quote, no empty line and no date line, so strip('"...') at
\* line 76 and the ends "\n\n" and "\n14/12" of correct_pattern leave them as they are
ClozeLabels == {"TP:", "TN:"}
ClozeUserGlyphs == {"[x]", "[v]"}   \* the two marks line 45 looks for

\* group(1) of "([A-Za-z]{1,4})\s*:" on a label
LabelOf(tok) ==
    CASE tok = "TP:" -> "TP" [] tok = "TN:" -> "TN"
      [] tok = "La respuesta correcta es:" -> "es"
      [] tok = "LA RESPUESTA CORRECTA ES:" -> "ES"
      [] OTHER -> ""

\* the phrases in which the unanchored "([A-Za-z]{1,4})\s*[:\-→]" of line 73 finds a
\* label: the labels, and an announcement written again (its last word, "es:")
CorrectLabels == ClozeLabels \cup {"La respuesta correcta es:", "LA RESPUESTA CORRECTA ES:"}

\* "^([A-Za-z]{1,4})\s*:" and "\nLa respuesta" at the start of a line
StartsLabel(line) == line.txt # <<>> /\ Head(line.txt) \in ClozeLabels
StartsLaRespuesta(line) == line.txt # <<>> /\ Head(line.txt) = SingularAnnouncement

\* the line at whose end the lazy group "(.+?)" of blank_pattern stops
RECURSIVE blank_end(_, _)
blank_end(text, k) ==
    IF k >= Len(text) \/ StartsLabel(text[k + 1]) \/ StartsLaRespuesta(text[k + 1])
    THEN k
    ELSE blank_end(text, k + 1)

\* blank_pattern.finditer(block_text): the label and group 2 of each match
RECURSIVE blank_matches(_, _)
blank_matches(text, i) ==
    IF i > Len(text) THEN <<>>
    ELSE IF ~StartsLabel(text[i]) THEN blank_matches(text, i + 1)
    ELSE LET rest == Tail(text[i].txt)
             start == IF rest # <<>> THEN i ELSE first_nonempty(text, i + 1)
         IN  IF start = 0 THEN blank_matches(text, i + 1)
             ELSE LET k == blank_end(text, start) IN
                  <<[label |-> LabelOf(Head(text[i].txt)),
                     text |-> rest \o join_txt(SubSeq(text, i + 1, k))]>>
                  \o blank_matches(text, k + 1)

\* extract_cloze_labeled_blanks.py:31-49: the value without its glyphs, on the user
\* side when one of the two marks is in the match, on the expected side otherwise
blank_of(match) ==
    LET value_text == without_glyphs(match.text)
        marked == \E j \in 1..Len(match.text) : match.text[j] \in ClozeUserGlyphs
    IN  [label |-> match.label,
         expected |-> IF value_text # <<>> /\ ~marked THEN Some(value_text) ELSE None,
         user |-> IF value_text # <<>> /\ marked THEN Some(value_text) ELSE None]

\* the place of a label in blanks_seen, 0 when it is not there
seen_at(blanks_seen, label) ==
    IF \E j \in 1..Len(blanks_seen) : blanks_seen[j].label = label
    THEN CHOOSE j \in 1..Len(blanks_seen) : blanks_seen[j].label = label
    ELSE 0

\* a value that Python takes as true: not None and not the empty string
Truthy(v) == v # None /\ v # Some(<<>>)

\* extract_cloze_labeled_blanks.py:51-62
RECURSIVE seen_after(_, _)
seen_after(blanks_seen, matches) ==
    IF matches = <<>> THEN blanks_seen
    ELSE LET b == blank_of(Head(matches))
             j == seen_at(blanks_seen, b.label)
         IN  IF j = 0 THEN seen_after(Append(blanks_seen, b), Tail(matches))
             ELSE seen_after(
                      [blanks_seen EXCEPT
                          ![j].expected = IF Truthy(b.expected) /\ ~Truthy(@)
                                          THEN b.expected ELSE @,
                          ![j].user = IF Truthy(b.user) /\ ~Truthy(@) THEN b.user ELSE @],
                      Tail(matches))

\* extract_cloze_labeled_blanks.py:65-71: group 1 of correct_pattern, the phrases after
\* the first announcement (in any case) that has text after it
correct_text(block_text) ==
    LET flat == flat_from(block_text, 1)
        hits == {j \in 1..(Len(flat) - 1) :
                    SamePhrase(flat[j].tok, SingularAnnouncement, TRUE)}
    IN  IF hits = {} THEN None
        ELSE LET j == CHOOSE j \in hits : \A k \in hits : j <= k IN
             Some([k \in 1..(Len(flat) - j) |-> flat[j + k].tok])

\* group 2 "([^,]+)": the phrases up to the next comma
RECURSIVE until_comma(_)
until_comma(toks) ==
    IF toks = <<>> \/ Head(toks) = "," THEN <<>>
    ELSE <<Head(toks)>> \o until_comma(Tail(toks))

\* correct_blank_pattern.finditer(correct_text), lines 73-76: a label that something
\* follows, with the phrases up to the next comma; the search goes on after them
RECURSIVE correct_blanks(_)
correct_blanks(toks) ==
    IF toks = <<>> THEN <<>>
    ELSE IF Head(toks) \in CorrectLabels /\ Tail(toks) # <<>>
    THEN LET value == until_comma(Tail(toks)) IN
         <<[label |-> LabelOf(Head(toks)), value |-> value]>>
         \o correct_blanks(SubSeq(toks, 2 + Len(value), Len(toks)))
    ELSE correct_blanks(Tail(toks))

\* extract_cloze_labeled_blanks.py:77-84
RECURSIVE seen_after_correct(_, _)
seen_after_correct(blanks_seen, entries) ==
    IF entries = <<>> THEN blanks_seen
    ELSE LET e == Head(entries)
             j == seen_at(blanks_seen, e.label)
         IN  IF j # 0
             THEN seen_after_correct([blanks_seen EXCEPT ![j].expected = Some(e.value)],
                                     Tail(entries))
             ELSE seen_after_correct(
                      Append(blanks_seen,
                             [label |-> e.label, expected |-> Some(e.value), user |-> None]),
                      Tail(entries))

\* extract_cloze_labeled_blanks.py:12-88
extract_cloze_labeled_blanks(block_text) ==
    LET blanks_seen == seen_after(<<>>, blank_matches(block_text, 1))
        correct_match == correct_text(block_text)
    IN  [blanks |-> IF correct_match # None
                    THEN seen_after_correct(blanks_seen, correct_blanks(correct_match[1]))
                    ELSE blanks_seen]

\* extract.py:24-49: the dispatch on kind; a field is None where the extractor's record
\* has no such key or the assembler's properties do not read it
extract_content(kind, block_text) ==
    IF kind = "single_choice"
    THEN LET content == extract_single_choice(block_text) IN
         [extractor |-> kind, options |-> Some(content.options),
          correct |-> Some(content.correct), user |-> Some(content.user)]
    ELSE IF kind = "multi_select"
    THEN [extractor |-> kind, options |-> Some(extract_options(block_text)),
          correct |-> None, user |-> None]
    ELSE IF kind \in {"matching", "numeric", "short_answer_text", "cloze_labeled_blanks",
                      "cloze_table", "multipart_short_answer", "external_media_reference"}
    THEN [extractor |-> kind, options |-> None, correct |-> None, user |-> None]
    ELSE [extractor |-> "unknown", options |-> None, correct |-> None, user |-> None]

----------------------------------------------------------------------------
(* parse/flags.py *)

any_search(patterns, block_text, ignorecase) ==
    \E i \in 1..Len(patterns) :
        re_search(unicode_escape(patterns[i]), block_text, ignorecase) # None

\* len(option["text"].strip()): the phrases of the option and the blanks between them
option_len(option) == LineLen(Line(option.text, <<>>))

detect_flags_without_options(rules, block_text, content) ==
    LET flags_config ==
            get(rules.flags, [asset_required |-> None, math_or_symbols_risky |-> None,
                              requires_external_media |-> None])
        asset_config ==
            get(flags_config.asset_required,
                [any_contains |-> None, any_regex |-> None, option_text_minlen |-> None])
        any_contains == get(asset_config.any_contains, <<>>)
        math_config == get(flags_config.math_or_symbols_risky, [any_regex |-> None])
        media_config == get(flags_config.requires_external_media, [any_regex |-> None])
    IN  [asset_required |->
             \/ \E i \in 1..Len(any_contains) : contains_lower(any_contains[i], block_text)
             \/ any_search(get(asset_config.any_regex, <<>>), block_text, TRUE),
         math_or_symbols_risky |->
             any_search(get(math_config.any_regex, <<>>), block_text, FALSE),
         requires_external_media |->
             any_search(get(media_config.any_regex, <<>>), block_text, TRUE)]

\* flags.py:19-84
detect_flags(rules, block_text, content) ==
    LET flags_config ==
            get(rules.flags, [asset_required |-> None, math_or_symbols_risky |-> None,
                              requires_external_media |-> None])
        asset_config ==
            get(flags_config.asset_required,
                [any_contains |-> None, any_regex |-> None, option_text_minlen |-> None])
        any_contains == get(asset_config.any_contains, <<>>)
        option_minlen == get(asset_config.option_text_minlen, 2)
        options == get(content.options, <<>>)
        math_config == get(flags_config.math_or_symbols_risky, [any_regex |-> None])
        media_config == get(flags_config.requires_external_media, [any_regex |-> None])
    IN  [asset_required |->
             \/ \E i \in 1..Len(any_contains) : contains_lower(any_contains[i], block_text)
             \/ any_search(get(asset_config.any_regex, <<>>), block_text, TRUE)
             \/ \E i \in 1..Len(options) : option_len(options[i]) < option_minlen,
         math_or_symbols_risky |->
             any_search(get(math_config.any_regex, <<>>), block_text, FALSE),
         requires_external_media |->
             any_search(get(media_config.any_regex, <<>>), block_text, TRUE)]

----------------------------------------------------------------------------
(* The rule table and the documents of the runs *)

Pattern(lit, groups) == [lit |-> lit, groups |-> groups]
Detector(kind, priority, when) == [kind |-> kind, priority |-> priority, when |-> when]
Cond(op, arg, min_count, subs) ==
    [op |-> op, arg |-> arg, min_count |-> min_count, subs |-> subs]
Contains(s) == Cond("contains", Pattern(s, 0), None, <<>>)
Regex(p) == Cond("regex", p, None, <<>>)
RegexRepeated(p, min_count) == Cond("regex_repeated", p, min_count, <<>>)
AnyOf(subs) == Cond("any", Pattern("", 0), None, subs)
AllOf(subs) == Cond("all", Pattern("", 0), None, subs)

\* rules/rules-1.0.yaml, in the shape the accessors of the four modules read
RULES_1_0 ==
    [segmentation |-> Some([primary_markers |->
         Some(<< [regex |-> Some(Pattern("Pregunta", 1))] >>)]),
     typing |-> Some([detectors |-> Some(<<
         Detector(Some("multi_select"), Some(90),
                  Some(<<Contains("Seleccione una o mas de una:")>>)),
         Detector(Some("single_choice"), Some(80), Some(<<Contains("Seleccione una:")>>))
       >>)]),
     grading |-> Some([
         status_markers |-> Some(<< <<"correct", "Correcta">>,
                                    <<"partial", "Parcialmente correcta">>,
                                    <<"incorrect", "Incorrecta">> >>),
         score_regex |-> Some([awarded_max |-> Some(Pattern("Se puntua", 2))]),
         penalty_text_regex |-> Some(<<Pattern("Cada intento resta", 0)>>)]),
     flags |-> Some([
         asset_required |-> Some([any_contains |-> Some(<<"Imagen">>),
                                  any_regex |-> Some(<<Pattern("[grafico]", 0)>>),
                                  option_text_minlen |-> Some(2)]),
         math_or_symbols_risky |-> Some([any_regex |-> Some(<<Pattern("[formula]", 0)>>)]),
         requires_external_media |-> Some([any_regex |-> Some(<<Pattern("[video]", 0)>>)])])]

MaxDocLen == 4   \* lines and page breaks of a document of the first family
MaxBlocks == 3   \* question blocks of a document of the second family

DigitChar(n) ==
    CASE n = 0 -> "0" [] n = 1 -> "1" [] n = 2 -> "2" [] n = 3 -> "3" [] n = 4 -> "4"
      [] n = 5 -> "5" [] n = 6 -> "6" [] n = 7 -> "7" [] n = 8 -> "8" [] n = 9 -> "9"

PageBreak == Line(<<"\f">>, <<>>)                 \* not a line: the end of a page
MarkerLine(c) == Line(<<"Pregunta">>, << <<c>> >>)   \* "Pregunta <c>"
TextLine(p) == Line(<<p>>, <<>>)

\* a document as lines and page breaks in order -> the text of each page
RECURSIVE PagesOf(_)
PagesOf(flat) ==
    IF flat = <<>> THEN << <<>> >>
    ELSE LET before == PagesOf(Front(flat)) IN
         IF Last(flat) = PageBreak THEN Append(before, <<>>)
         ELSE [before EXCEPT ![Len(before)] = Append(@, Last(flat))]

SeqsUpTo(S, n) == UNION {[1..k -> S] : k \in 0..n}

\* first family: any arrangement of marker lines (numbered 1, 2 or with a capture
\* that is no number), two text lines and page breaks
SegmentSymbols ==
    {MarkerLine("1"), MarkerLine("2"), MarkerLine("x"), TextLine("t"), TextLine("u"),
     PageBreak}

\* second family: numbered blocks of one line each (a prompt, a status, a score, a
\* phrase that asks for an asset, a penalty rule, and lines with two of them)
ContentLines ==
    {TextLine("Seleccione una:"),
     TextLine("Correcta"),
     Line(<<"Se puntua">>, << <<"0", ",", "5">>, <<"1">> >>),
     TextLine("Imagen"),
     Line(<<"Seleccione una:", "imagen">>, <<>>),
     Line(<<"Seleccione una:", "Incorrecta">>, <<>>),
     TextLine("Cada intento resta")}

RECURSIVE FlatOfChunks(_)
FlatOfChunks(chunks) ==
    IF chunks = <<>> THEN <<>>
    ELSE FlatOfChunks(Front(chunks))
         \o <<MarkerLine(DigitChar(Len(chunks))), Last(chunks)>>

Documents ==
    {PagesOf(flat) : flat \in SeqsUpTo(SegmentSymbols, MaxDocLen)}
    \cup {PagesOf(FlatOfChunks(chunks)) :
             chunks \in SeqsUpTo(ContentLines, MaxBlocks)}

----------------------------------------------------------------------------
(* cli.py, _parse_pdf *)

is_grading_only_status(kind, grad) == kind = "unknown" /\ grad.status # None

\* cli.py:75-78
is_grading_only(kind, grad) ==
    /\ kind = "unknown"
    /\ (grad.status # None \/ grad.score_awarded # None \/ grad.score_max # None)

\* the entries of an issues list as JSON values: a string, as cli.py:92 writes it, or
\* the dict of core/issues.py:35-40 (nothing in _parse_pdf calls create_issue)
Str(s) == [type |-> "string", value |-> s]
create_issue(code, where, msg, level) ==
    [type |-> "object", level |-> level, code |-> code, where |-> where, msg |-> msg]

stored_kind_as_detected(kind) == kind

\* cli.py:88-96: the kind stored and the issues of a new question
stored_kind(kind) == IF kind = "unknown" THEN "short_answer_text" ELSE kind
issues_of(kind) == IF kind = "unknown" THEN <<Str("UNKNOWN_KIND_FALLBACK")>> ELSE <<>>

\* cli.py:109
grading_of(grad) ==
    IF grad.status # None \/ grad.score_awarded # None THEN Some(grad) ELSE None

stem_of_first_line(block_text, question_flags, pages) ==
    [text |-> IF block_text = <<>> THEN <<>> ELSE <<block_text[1]>>, assets |-> <<>>]

\* cli.py:105-108: nothing renders assets in _parse_pdf, the list stays empty
stem_of(block_text, question_flags, pages) == [text |-> block_text, assets |-> <<>>]

new_question_numbered_by_run(rules, block, kind, grad) ==
    LET content == extract_content(stored_kind(kind), block.text)
        question_flags == detect_flags(rules, block.text, content)
    IN  [id |-> <<"Q", block.number, Len(out_dir)>>,
         number |-> block.number,
         kind |-> stored_kind(kind),
         stem |-> stem_of(block.text, question_flags, block.pages),
         grading |-> grading_of(grad),
         content |-> content,
         raw |-> [block_text |-> block.text, pages |-> block.pages],
         flags |-> question_flags,
         issues |-> issues_of(kind)]

\* cli.py:85-117
new_question(rules, block, kind, grad) ==
    LET content == extract_content(stored_kind(kind), block.text)
        question_flags == detect_flags(rules, block.text, content)
    IN  [id |-> <<"Q", block.number>>,
         number |-> block.number,
         kind |-> stored_kind(kind),
         stem |-> stem_of(block.text, question_flags, block.pages),
         grading |-> grading_of(grad),
         content |-> content,
         raw |-> [block_text |-> block.text, pages |-> block.pages],
         flags |-> question_flags,
         issues |-> issues_of(kind)]

Init ==
    /\ pc = "segment"
    /\ _RULES = RULES_1_0
    /\ normalized_pages \in Documents
    /\ blocks = <<>>
    /\ block_index = 0
    /\ questions = <<>>
    /\ prev_q = None
    /\ exam_doc = None
    /\ in_path = "a.pdf"
    /\ in_dir = <<>>
    /\ pdf_index = 0
    /\ out_dir = <<>>
    /\ text_in = None
    /\ result = None

Segment_keeps_questions ==
    /\ pc = "segment"
    /\ blocks' = segment_pages(_RULES, normalized_pages)
    /\ block_index' = 1
    /\ pc' = "loop"
    /\ UNCHANGED <<_RULES, normalized_pages, exam_doc, text_in, result, questions, prev_q>>
    /\ UNCHANGED <<in_path, batch_vars>>

\* cli.py:65-67
Segment ==
    /\ pc = "segment"
    /\ blocks' = segment_pages(_RULES, normalized_pages)
    /\ questions' = <<>>
    /\ prev_q' = None
    /\ block_index' = 1
    /\ pc' = "loop"
    /\ UNCHANGED <<_RULES, normalized_pages, exam_doc, text_in, result>>
    /\ UNCHANGED <<in_path, batch_vars>>

InLoop == pc = "loop" /\ block_index \in 1..Len(blocks)
BlockKind == detect_kind(_RULES, blocks[block_index].text)
BlockGrading == extract_grading(_RULES, blocks[block_index].text)

MergeGrading_records_pages ==
    /\ InLoop
    /\ BlockGrading.exc = None
    /\ is_grading_only(BlockKind, BlockGrading.grad) /\ prev_q # None
    /\ questions' = [questions EXCEPT ![prev_q[1]].grading = Some(BlockGrading.grad),
                                      ![prev_q[1]].raw.pages = @ \o blocks[block_index].pages]
    /\ block_index' = block_index + 1
    /\ UNCHANGED <<pc, _RULES, normalized_pages, blocks, prev_q, exam_doc, text_in, result>>
    /\ UNCHANGED <<in_path, batch_vars>>

\* cli.py:80-83: the block carries only grading, prev_q takes it and no question is made
MergeGrading ==
    /\ InLoop
    /\ BlockGrading.exc = None
    /\ is_grading_only(BlockKind, BlockGrading.grad) /\ prev_q # None
    /\ questions' = [questions EXCEPT ![prev_q[1]].grading = Some(BlockGrading.grad)]
    /\ block_index' = block_index + 1
    /\ UNCHANGED <<pc, _RULES, normalized_pages, blocks, prev_q, exam_doc, text_in, result>>
    /\ UNCHANGED <<in_path, batch_vars>>

AppendQuestion_drops_first_grading_only ==
    /\ InLoop
    /\ BlockGrading.exc = None
    /\ ~(is_grading_only(BlockKind, BlockGrading.grad) /\ prev_q # None)
    /\ IF is_grading_only(BlockKind, BlockGrading.grad)
       THEN UNCHANGED <<questions, prev_q>>
       ELSE /\ questions' = Append(questions,
                                   new_question(_RULES, blocks[block_index], BlockKind,
                                                BlockGrading.grad))
            /\ prev_q' = Some(Len(questions) + 1)
    /\ block_index' = block_index + 1
    /\ UNCHANGED <<pc, _RULES, normalized_pages, blocks, exam_doc, text_in, result>>
    /\ UNCHANGED <<in_path, batch_vars>>

\* cli.py:85-120
AppendQuestion ==
    /\ InLoop
    /\ BlockGrading.exc = None
    /\ ~(is_grading_only(BlockKind, BlockGrading.grad) /\ prev_q # None)
    /\ questions' = Append(questions,
                           new_question(_RULES, blocks[block_index], BlockKind,
                                        BlockGrading.grad))
    /\ prev_q' = Some(Len(questions) + 1)
    /\ block_index' = block_index + 1
    /\ UNCHANGED <<pc, _RULES, normalized_pages, blocks, exam_doc, text_in, result>>
    /\ UNCHANGED <<in_path, batch_vars>>

\* cli.py:122-134
BuildExamDoc ==
    /\ pc = "loop" /\ block_index > Len(blocks)
    /\ exam_doc' = Some([schema_version |-> "1.0",
                         source |-> [file_name |-> in_path,
                                     doc_type |-> "moodle_attempt_review",
                                     page_count |-> Len(normalized_pages)],
                         questions |-> questions,
                         issues |-> <<>>])
    /\ pc' = "done"
    /\ UNCHANGED <<_RULES, normalized_pages, blocks, block_index, questions, prev_q,
                   text_in, result>>
    /\ UNCHANGED <<in_path, batch_vars>>

Next == Segment \/ MergeGrading \/ AppendQuestion \/ BuildExamDoc

Spec == Init /\ [][Next]_vars

----------------------------------------------------------------------------
(* Properties of the assembler *)

Processed == IF pc = "segment" THEN 0 ELSE block_index - 1   \* blocks consumed so far

KindOfBlock(b) == detect_kind(_RULES, blocks[b].text)
GradingOfBlock(b) == extract_grading(_RULES, blocks[b].text).grad

HasSignal(g) == g.status # None \/ g.score_awarded # None \/ g.score_max # None

\* a block that carries only grading and comes after a question
GradingOnlyBlock(b) == b > 1 /\ KindOfBlock(b) = "unknown" /\ HasSignal(GradingOfBlock(b))

\* the questions made from the blocks before b
QuestionsBefore(b) == Cardinality({c \in 1..(b - 1) : ~GradingOnlyBlock(c)})

\* the block the i-th question was made from
SourceBlock(i) ==
    CHOOSE b \in 1..Len(blocks) : ~GradingOnlyBlock(b) /\ QuestionsBefore(b) = i - 1

\* C1 (as claimed): every question whose flags require an asset has rendered assets
C1_AssetsWhenRequired ==
    \A i \in 1..Len(questions) :
        questions[i].flags.asset_required => questions[i].stem.assets # <<>>

\* no sub-field of a grading record was extracted
AllNull(g) ==
    /\ g.status = None /\ g.score_awarded = None /\ g.score_max = None
    /\ g.penalty_rule_text = None /\ g.feedback = None

\* the question made from block b has taken no grading of a later block
Unmerged(b) == b = Processed \/ (b < Processed /\ ~GradingOnlyBlock(b + 1))

\* C16 (as claimed): the grading of a question is null exactly when no sub-field was
\* extracted from its block (status, scores, penalty text and feedback all null), and
\* otherwise it is the record extract_grading returned
C16_GradingNullIffNoSignal ==
    \A i \in 1..Len(questions) :
        LET b == SourceBlock(i) IN
        Unmerged(b) =>
            /\ questions[i].grading = None <=> AllNull(GradingOfBlock(b))
            /\ ~AllNull(GradingOfBlock(b)) =>
                   questions[i].grading = Some(GradingOfBlock(b))

\* an issue record with the four fields of the schema
IsIssueRecord(v) ==
    v.type = "object" /\ {"level", "code", "where", "msg"} \subseteq DOMAIN v
MentionsFallback(v) ==
    IF v.type = "string" THEN v.value = "UNKNOWN_KIND_FALLBACK"
    ELSE v.code = "UNKNOWN_KIND_FALLBACK"

\* C17 (as claimed): a question made from a block of unknown kind has among its issues
\* a record {level, code, where, msg} for the fallback; a question made from a block of
\* a recognised kind has no issue about the fallback
C17_FallbackIssueRecord ==
    \A i \in 1..Len(questions) :
        LET iss == questions[i].issues IN
        /\ KindOfBlock(SourceBlock(i)) = "unknown" =>
               \E k \in 1..Len(iss) : IsIssueRecord(iss[k]) /\ MentionsFallback(iss[k])
        /\ KindOfBlock(SourceBlock(i)) # "unknown" =>
               \A k \in 1..Len(iss) : ~MentionsFallback(iss[k])

\* C2: no question has kind "unknown"; a question made from a block that detect_kind
\* classifies as unknown is stored with the fallback kind short_answer_text
C2_NoUnknownKind ==
    /\ Len(questions) = Cardinality({b \in 1..Processed : ~GradingOnlyBlock(b)})
    /\ \A i \in 1..Len(questions) :
           /\ questions[i].kind # "unknown"
           /\ KindOfBlock(SourceBlock(i)) = "unknown"
                  => questions[i].kind = "short_answer_text"
           /\ KindOfBlock(SourceBlock(i)) # "unknown"
                  => questions[i].kind = KindOfBlock(SourceBlock(i))

C2_Witness ==
    /\ pc = "done"
    /\ \E i \in 1..Len(questions) :
           /\ KindOfBlock(SourceBlock(i)) = "unknown"
           /\ questions[i].kind = "short_answer_text"
    /\ \E i \in 1..Len(questions) : questions[i].kind = "single_choice"

\* C3: a grading-only block after a question makes no question, and the question made
\* last takes its grading; of a run of such blocks the grading of the last one remains
C3_GradingOnlyMerged ==
    /\ Len(questions) = Cardinality({b \in 1..Processed : ~GradingOnlyBlock(b)})
    /\ \A b \in 1..Processed :
           (GradingOnlyBlock(b) /\ (b = Processed \/ ~GradingOnlyBlock(b + 1)))
               => questions[QuestionsBefore(b)].grading = Some(GradingOfBlock(b))

C3_Witness ==
    /\ pc = "done"
    /\ Len(blocks) = 3 /\ Len(questions) = 1
    /\ GradingOnlyBlock(2) /\ GradingOnlyBlock(3)
    /\ GradingOfBlock(2) # GradingOfBlock(3)
    /\ questions[1].grading = Some(GradingOfBlock(3))

\* the signal of the spec: a status or an awarded score
StatusOrScore(g) == g.status # None \/ g.score_awarded # None

\* C21: a first block of unknown kind whose grading carries a signal is not discarded:
\* it makes the first question, with the fallback kind, a fallback issue and, until a
\* later block is merged into it, its own grading record; it is the previous question
\* a grading-only second block is merged into
C21_FirstGradingBlockKept ==
    (Processed >= 1 /\ KindOfBlock(1) = "unknown" /\ StatusOrScore(GradingOfBlock(1))) =>
        /\ Len(questions) >= 1
        /\ questions[1].number = blocks[1].number
        /\ questions[1].raw.block_text = blocks[1].text
        /\ questions[1].kind = "short_answer_text"
        /\ \E k \in 1..Len(questions[1].issues) : MentionsFallback(questions[1].issues[k])
        /\ Processed = 1 =>
               /\ questions[1].grading = Some(GradingOfBlock(1))
               /\ prev_q = Some(1)
        /\ (Processed = 2 /\ GradingOnlyBlock(2)) =>
               /\ Len(questions) = 1
               /\ prev_q = Some(1)
               /\ questions[1].grading = Some(GradingOfBlock(2))

C21_Witness ==
    /\ Processed = 2 /\ Len(blocks) >= 2
    /\ KindOfBlock(1) = "unknown" /\ GradingOfBlock(1).status # None
    /\ GradingOnlyBlock(2) /\ GradingOfBlock(2).score_awarded # None
    /\ Len(questions) = 1
    /\ questions[1].grading = Some(GradingOfBlock(2))

\* C22: every block that is not merged makes exactly one question, in block order: the
\* questions are as many as the blocks processed less the merged grading-only blocks,
\* and each has id "Q" + number and the number, text and pages of its block verbatim
C22_OneQuestionPerUnmergedBlock ==
    /\ Len(questions) = Processed - Cardinality({b \in 1..Processed : GradingOnlyBlock(b)})
    /\ \A i \in 1..Len(questions) :
           LET b == SourceBlock(i) IN
           /\ b <= Processed
           /\ questions[i].id = <<"Q", blocks[b].number>>
           /\ questions[i].number = blocks[b].number
           /\ questions[i].raw.block_text = blocks[b].text
           /\ questions[i].stem.text = blocks[b].text
           /\ questions[i].raw.pages = blocks[b].pages
    /\ \A i, j \in 1..Len(questions) : i < j => SourceBlock(i) < SourceBlock(j)

C22_Witness ==
    /\ pc = "done"
    /\ Len(blocks) = 3 /\ Len(questions) = 2
    /\ GradingOnlyBlock(2)
    /\ questions[2].id = <<"Q", blocks[3].number>>
    /\ questions[2].stem.text = blocks[3].text

\* a question from a block of several lines on two pages
C22_WitnessVerbatim ==
    /\ pc = "done"
    /\ \E i \in 1..Len(questions) :
           /\ Len(questions[i].raw.block_text) >= 2
           /\ Len(questions[i].raw.pages) >= 2
           /\ questions[i].stem.text = questions[i].raw.block_text

\* a step of the loop over a block that carries only grading, after a question
MergeStep ==
    /\ InLoop /\ block_index' = block_index + 1
    /\ questions # <<>>
    /\ KindOfBlock(block_index) = "unknown" /\ HasSignal(GradingOfBlock(block_index))

\* C29: a merge changes nothing but the grading of the question made last: the list
\* keeps its length, every other question and every other field of that question stay
\* as they were (nothing of the merged block's text or pages is added), and the
\* grading becomes the record of the merged block
C29_MergeChangesGradingOnly ==
    [][MergeStep =>
          /\ Len(questions') = Len(questions)
          /\ \A i \in 1..(Len(questions) - 1) : questions'[i] = questions[i]
          /\ questions' = [questions EXCEPT ![Len(questions)].grading =
                                                Some(GradingOfBlock(block_index))]
          /\ prev_q' = prev_q /\ prev_q = Some(Len(questions))]_vars

C29_Witness ==
    /\ Processed = 2 /\ Len(blocks) = 3
    /\ KindOfBlock(1) = "single_choice" /\ GradingOnlyBlock(2)
    /\ Len(questions) = 1
    /\ questions[1].raw = [block_text |-> blocks[1].text, pages |-> blocks[1].pages]
    /\ questions[1].grading = Some(GradingOfBlock(2))
    /\ GradingOfBlock(1).status # GradingOfBlock(2).status

----------------------------------------------------------------------------
(* Properties of the segmenter *)

\* the lines of the document in order, each with the index of its page
RECURSIVE LinesFrom(_, _)
LinesFrom(pages, i) ==
    IF i > Len(pages) THEN <<>>
    ELSE [j \in 1..Len(split(pages[i])) |-> [page |-> i - 1, line |-> split(pages[i])[j]]]
         \o LinesFrom(pages, i + 1)

DocLines == LinesFrom(normalized_pages, 1)

\* a marker line: "Pregunta" followed by a number
IsMarker(line) ==
    /\ line.txt # <<>> /\ Head(line.txt) = "Pregunta"
    /\ Len(line.cap) >= 1 /\ line.cap[1] # <<>>
    /\ \A i \in 1..Len(line.cap[1]) : IsDigit(line.cap[1][i])

MarkersIn(dl) == {j \in 1..Len(dl) : IsMarker(dl[j].line)}
NthIn(mp, k) == CHOOSE j \in mp : Cardinality({i \in mp : i < j}) = k - 1
\* the lines after the k-th marker, up to the next marker or the end of the document
SpanIn(dl, mp, k) ==
    LET first == NthIn(mp, k)
        last == IF k < Cardinality(mp) THEN NthIn(mp, k + 1) - 1 ELSE Len(dl)
    IN  [j \in 1..(last - first) |-> dl[first + j]]

NonEmpty(text) == SelectSeq(text, LAMBDA l : l # EmptyLine)
LinesOf(span) == [j \in 1..Len(span) |-> span[j].line]

RECURSIVE BlocksText(_)
BlocksText(bs) ==
    IF bs = <<>> THEN <<>> ELSE BlocksText(Front(bs)) \o NonEmpty(Last(bs).text)

Segmented == pc # "segment"

\* C8: one block per marker line, in document order, numbered by its marker; its text
\* is the lines between its marker and the next one; no marker line is in any text
C8_OneBlockPerMarker ==
    Segmented =>
        LET dl == DocLines
            mp == MarkersIn(dl)
        IN  /\ Len(blocks) = Cardinality(mp)
            /\ \A k \in 1..Len(blocks) :
                   /\ blocks[k].number = int(dl[NthIn(mp, k)].line.cap[1])
                   /\ NonEmpty(blocks[k].text) = NonEmpty(LinesOf(SpanIn(dl, mp, k)))
                   /\ \A j \in 1..Len(blocks[k].text) : ~IsMarker(blocks[k].text[j])

C8_Witness ==
    /\ Segmented
    /\ Len(blocks) = 3
    /\ \A k \in 1..3 : blocks[k].number = k /\ Len(blocks[k].text) = 1

C8_WitnessNoMarker == Segmented /\ blocks = <<>> /\ Len(DocLines) >= 3

\* C9 (as claimed): the texts of the blocks, one after the other, are all the lines
\* of the document that are not marker lines
C9_AllLinesKept ==
    Segmented =>
        BlocksText(blocks)
            = NonEmpty(SelectSeq(LinesOf(DocLines), LAMBDA l : ~IsMarker(l)))

\* C9 (amended): ... are the lines that follow the first marker line and are not
\* marker lines; the lines before the first marker are in no block
C9_LinesAfterFirstMarkerKept ==
    Segmented =>
        LET dl == DocLines
            mp == MarkersIn(dl)
        IN  BlocksText(blocks)
                = IF mp = {} THEN <<>>
                  ELSE NonEmpty(SelectSeq(LinesOf(SubSeq(dl, NthIn(mp, 1), Len(dl))),
                                          LAMBDA l : ~IsMarker(l)))

C9_Witness ==
    /\ Segmented
    /\ Len(blocks) = 2 /\ blocks[1].text # <<>>
    /\ ~IsMarker(DocLines[1].line) /\ DocLines[1].line # EmptyLine

\* C10: the pages of a block, and raw.pages of a question, are a non-empty list in
\* increasing order without duplicates: the page of the block's marker and the pages
\* of the lines that follow it up to the next marker
C10_PagesOfBlock ==
    /\ Segmented =>
           LET dl == DocLines
               mp == MarkersIn(dl)
           IN  \A k \in 1..Len(blocks) :
                   LET pages == blocks[k].pages
                       span == SpanIn(dl, mp, k)
                   IN  /\ pages # <<>>
                       /\ \A i \in 1..(Len(pages) - 1) : pages[i] < pages[i + 1]
                       /\ {pages[i] : i \in 1..Len(pages)}
                              = {dl[NthIn(mp, k)].page}
                                \cup {span[j].page : j \in 1..Len(span)}
    /\ \A i \in 1..Len(questions) :
           /\ questions[i].raw.pages # <<>>
           /\ questions[i].raw.pages = blocks[SourceBlock(i)].pages

C10_Witness ==
    /\ pc = "done"
    /\ \E i \in 1..Len(questions) : Len(questions[i].raw.pages) >= 2
    /\ \E k \in 1..Len(blocks) : blocks[k].pages[1] > 0 /\ Len(blocks[k].pages) >= 2

----------------------------------------------------------------------------
(* detect_kind on its own: any table of up to MaxDetectors detectors, any text *)

MaxDetectors == 3

DetectorPool ==
    {Detector(Some("single_choice"), Some(2), Some(<<Contains("A")>>)),
     Detector(Some("numeric"), Some(2), Some(<<Contains("A"), Contains("B")>>)),
     Detector(Some("matching"), Some(1), Some(<<Contains("B")>>)),
     Detector(Some("cloze_table"), None, Some(<<>>)),
     Detector(None, Some(3), Some(<<Regex(Pattern("B", 0))>>)),
     Detector(Some("multi_select"), Some(1),
              Some(<<AnyOf(<<Contains("C"), RegexRepeated(Pattern("B", 0), Some(2))>>)>>)),
     Detector(Some("numeric"), Some(0), None),
     Detector(Some("short_answer_text"), Some(2),
              Some(<<AllOf(<<Contains("B")>>), Cond("unsupported", Pattern("B", 0), None, <<>>)>>))}

KindTexts ==
    {<<>>, <<TextLine("A")>>, <<TextLine("B")>>, <<TextLine("A"), TextLine("B")>>,
     <<Line(<<"B", "B">>, <<>>)>>, <<TextLine("C")>>}

TypingSections ==
    {None, Some([detectors |-> None])}
    \cup {Some([detectors |-> Some(ds)]) : ds \in SeqsUpTo(DetectorPool, MaxDetectors)}

InitKind ==
    /\ pc = "detect_kind"
    /\ _RULES \in {[RULES_1_0 EXCEPT !.typing = t] : t \in TypingSections}
    /\ text_in \in {Some(t) : t \in KindTexts}
    /\ result = None
    /\ normalized_pages = <<>>
    /\ blocks = <<>>
    /\ block_index = 0
    /\ questions = <<>>
    /\ prev_q = None
    /\ exam_doc = None
    /\ in_path = "a.pdf"
    /\ in_dir = <<>>
    /\ pdf_index = 0
    /\ out_dir = <<>>

\* a call of detect_kind, cli.py:71
DetectKind ==
    /\ pc = "detect_kind"
    /\ result' = Some(detect_kind(_RULES, text_in[1]))
    /\ pc' = "returned"
    /\ UNCHANGED <<_RULES, normalized_pages, blocks, block_index, questions, prev_q,
                   exam_doc, text_in>>
    /\ UNCHANGED <<in_path, batch_vars>>

NextKind == DetectKind

SpecKind == InitKind /\ [][NextKind]_vars

Declared == get(get(_RULES.typing, [detectors |-> None]).detectors, <<>>)
Priority(d) == IF d.priority = None THEN 0 ELSE d.priority[1]
Matches(d) ==
    d.when = None \/ \A i \in 1..Len(d.when[1]) : _match_condition(text_in[1], d.when[1][i])
\* detector i is tried before detector j
TriedBefore(i, j) ==
    \/ Priority(Declared[i]) > Priority(Declared[j])
    \/ Priority(Declared[i]) = Priority(Declared[j]) /\ i < j
FirstMatching ==
    CHOOSE i \in 1..Len(Declared) :
        /\ Matches(Declared[i])
        /\ \A j \in 1..Len(Declared) : (j # i /\ Matches(Declared[j])) => TriedBefore(i, j)

\* C6: the detectors are tried by descending priority, equal priorities in declaration
\* order; the kind of the first one whose conditions all hold is returned, and
\* "unknown" when none matches
C6_FirstMatchByPriority ==
    pc = "returned" =>
        IF \E i \in 1..Len(Declared) : Matches(Declared[i])
        THEN result = Some(IF Declared[FirstMatching].kind = None THEN "unknown"
                           ELSE Declared[FirstMatching].kind[1])
        ELSE result = Some("unknown")

C6_Witness ==
    /\ pc = "returned"
    /\ \E i, j, k \in 1..Len(Declared) :
           /\ i < j /\ j < k
           /\ Matches(Declared[i]) /\ Matches(Declared[j]) /\ Matches(Declared[k])
           /\ Priority(Declared[i]) < Priority(Declared[j])
           /\ Priority(Declared[j]) = Priority(Declared[k])
           /\ Declared[j].kind # Declared[k].kind
           /\ Declared[j].kind # None
           /\ result = Declared[j].kind

\* C7: the value returned is "unknown" or the kind of a declared detector
C7_KindDeclaredOrUnknown ==
    pc = "returned" =>
        \/ result = Some("unknown")
        \/ \E i \in 1..Len(Declared) : result = Declared[i].kind

C7_Witness ==
    /\ pc = "returned"
    /\ Len(Declared) = MaxDetectors
    /\ \A i \in 1..Len(Declared) : ~Matches(Declared[i]) /\ Declared[i].kind # None
    /\ result = Some("unknown")

C7_WitnessDeclared ==
    /\ pc = "returned"
    /\ result # Some("unknown")
    /\ \E i \in 1..Len(Declared) : result = Declared[i].kind

----------------------------------------------------------------------------
(* extract_grading on its own: any score pattern, any captured strings *)

MaxCapLen == 3   \* characters of a captured group

CapChars == {"1", ",", "."}
Captures == SeqsUpTo(CapChars, MaxCapLen) \cup {NoneGroup}

ScoreRegexSections ==
    {None, Some([awarded_max |-> None])}
    \cup {Some([awarded_max |-> Some(Pattern("Se puntua", n))]) : n \in 0..2}

GradingTexts ==
    {<<Line(<<"Se puntua">>, <<g1, g2>>)>> : g1, g2 \in Captures}
    \cup {<<TextLine("Correcta"), Line(<<"se puntua">>, <<g1, <<"1">> >>)>> : g1 \in Captures}
    \cup {<<>>, <<TextLine("Incorrecta")>>}

InitGrading ==
    /\ pc = "extract_grading"
    /\ _RULES \in {[RULES_1_0 EXCEPT !.grading = Some([@[1] EXCEPT !.score_regex = sr])] :
                      sr \in ScoreRegexSections}
    /\ text_in \in {Some(t) : t \in GradingTexts}
    /\ result = None
    /\ normalized_pages = <<>>
    /\ blocks = <<>>
    /\ block_index = 0
    /\ questions = <<>>
    /\ prev_q = None
    /\ exam_doc = None
    /\ in_path = "a.pdf"
    /\ in_dir = <<>>
    /\ pdf_index = 0
    /\ out_dir = <<>>

\* a call of extract_grading that returns, cli.py:72
ExtractGradingReturns ==
    /\ pc = "extract_grading"
    /\ extract_grading(_RULES, text_in[1]).exc = None
    /\ result' = Some(extract_grading(_RULES, text_in[1]).grad)
    /\ pc' = "returned"
    /\ UNCHANGED <<_RULES, normalized_pages, blocks, block_index, questions, prev_q,
                   exam_doc, text_in>>
    /\ UNCHANGED <<in_path, batch_vars>>

\* a call of extract_grading that an exception leaves
ExtractGradingRaises ==
    /\ pc = "extract_grading"
    /\ extract_grading(_RULES, text_in[1]).exc # None
    /\ result' = extract_grading(_RULES, text_in[1]).exc
    /\ pc' = "raised"
    /\ UNCHANGED <<_RULES, normalized_pages, blocks, block_index, questions, prev_q,
                   exam_doc, text_in>>
    /\ UNCHANGED <<in_path, batch_vars>>

NextGrading == ExtractGradingReturns \/ ExtractGradingRaises

SpecGrading == InitGrading /\ [][NextGrading]_vars

\* C4 (as claimed): score_awarded and score_max are both null or both numbers
C4_ScoresBothOrNeither ==
    pc = "returned" => (result[1].score_awarded = None <=> result[1].score_max = None)

\* C5 (as claimed): extract_grading returns a record for every text, it never raises
C5_NeverRaises == pc # "raised"

----------------------------------------------------------------------------
(* extract_single_choice on its own: any block of up to MaxChoiceLines lines *)

MaxChoiceLines == 5

ChoiceLines ==
    {Line(<<"a.", "Paris">>, <<>>),
     Line(<<"b.", "London">>, <<>>),
     Line(<<"c.", "Berlin">>, <<>>),
     Line(<<"La respuesta correcta es:", "b">>, <<>>),
     Line(<<"b.", "London", "[v]">>, <<>>),
     Line(<<"Las respuestas correctas son:", "c", ",", "a">>, <<>>),
     Line(<<"B.">>, <<>>),
     Line(<<"a.", "[ ]">>, <<>>)}

ChoiceTexts == SeqsUpTo(ChoiceLines, MaxChoiceLines)

InitSingleChoice ==
    /\ pc = "extract_single_choice"
    /\ _RULES = RULES_1_0
    /\ text_in \in {Some(t) : t \in ChoiceTexts}
    /\ result = None
    /\ normalized_pages = <<>>
    /\ blocks = <<>>
    /\ block_index = 0
    /\ questions = <<>>
    /\ prev_q = None
    /\ exam_doc = None
    /\ in_path = "a.pdf"
    /\ in_dir = <<>>
    /\ pdf_index = 0
    /\ out_dir = <<>>

\* a call of extract_single_choice, extract.py:48-49
ExtractSingleChoice ==
    /\ pc = "extract_single_choice"
    /\ result' = Some(extract_single_choice(text_in[1]))
    /\ pc' = "returned"
    /\ UNCHANGED <<_RULES, normalized_pages, blocks, block_index, questions, prev_q,
                   exam_doc, text_in>>
    /\ UNCHANGED <<in_path, batch_vars>>

NextSingleChoice == ExtractSingleChoice

SpecSingleChoice == InitSingleChoice /\ [][NextSingleChoice]_vars

ChoiceReturned == pc = "returned" /\ text_in # None /\ result # None

\* the lines of the block that open with the plural announcement and list letters
ListedLetters(line) ==
    SelectSeq(Tail(line.txt), LAMBDA tok : tok \in {"a", "b", "c", "d", "e"})
PluralLines ==
    {i \in 1..Len(text_in[1]) :
        /\ text_in[1][i].txt # <<>>
        /\ Head(text_in[1][i].txt) = PluralAnnouncement
        /\ ListedLetters(text_in[1][i]) # <<>>}
HasSingular ==
    \E i \in 1..Len(text_in[1]) : LineHas(text_in[1][i], SingularAnnouncement, TRUE)

\* C11: content.correct has at most one entry; when the answer comes from an
\* announcement that lists several letters (no singular announcement in the block),
\* the entry is the first letter the first such announcement lists
C11_CorrectAtMostOne ==
    ChoiceReturned =>
        /\ Len(result[1].correct) <= 1
        /\ (~HasSingular /\ PluralLines # {}) =>
               LET i == CHOOSE i \in PluralLines : \A k \in PluralLines : i <= k IN
               result[1].correct = <<Head(ListedLetters(text_in[1][i]))>>

\* an announcement that lists two letters was read and one entry kept
C11_Witness ==
    /\ ChoiceReturned
    /\ ~HasSingular
    /\ \E i \in PluralLines : Len(ListedLetters(text_in[1][i])) >= 2
    /\ result[1].correct = <<"c">>

ExampleBlock ==
    <<Line(<<"a.", "Paris">>, <<>>), Line(<<"b.", "London">>, <<>>),
      Line(<<"c.", "Berlin">>, <<>>), Line(<<"La respuesta correcta es:", "b">>, <<>>),
      Line(<<"b.", "London", "[v]">>, <<>>)>>

\* C12 (as claimed): on the block a, b, c, announcement of b, b repeated with a check
\* mark, the result is the three options a, b, c, correct = [b] and user = [b]
C12_ExampleThreeOptions ==
    (ChoiceReturned /\ text_in[1] = ExampleBlock) =>
        result[1] = [options |-> <<[key |-> "a", text |-> <<"Paris">>],
                                   [key |-> "b", text |-> <<"London">>],
                                   [key |-> "c", text |-> <<"Berlin">>]>>,
                     correct |-> <<"b">>,
                     user |-> <<"b">>]

----------------------------------------------------------------------------
(* extract_numeric on its own: an announcement line and a label line, each followed  *)
(* by any string of up to MaxNumLen characters, in either order, with or without a   *)
(* rounding or tolerance hint                                                        *)

MaxNumLen == 3

NumChars == {"3", ",", ".", "-"}
Written(n) == SeqsUpTo(NumChars, n)

AnnouncementLine(w) == Line(<<SingularAnnouncement>>, <<w>>)
LabelLine(label, w) == Line(<<label>>, <<w>>)
HintLines ==
    {<<>>, <<Line(<<"redondea a", "decimal">>, << <<"3">> >>)>>,
     <<Line(<<"tolerancia de">>, << <<"3", ",">> >>)>>}

NumericTexts(w1, w2, label) ==
    {<<AnnouncementLine(w1), LabelLine(label, w2)>> \o hint : hint \in HintLines}
    \cup {<<LabelLine(label, w2), AnnouncementLine(w1)>>, <<LabelLine(label, w2)>>}

InitNumeric ==
    /\ pc = "extract_numeric"
    /\ _RULES = RULES_1_0
    /\ \E w1 \in Written(MaxNumLen), w2 \in Written(MaxNumLen),
          label \in {"Respuesta:", "Valor:"} :
           \E t \in NumericTexts(w1, w2, label) : text_in = Some(t)
    /\ result = None
    /\ normalized_pages = <<>>
    /\ blocks = <<>>
    /\ block_index = 0
    /\ questions = <<>>
    /\ prev_q = None
    /\ exam_doc = None
    /\ in_path = "a.pdf"
    /\ in_dir = <<>>
    /\ pdf_index = 0
    /\ out_dir = <<>>

\* a call of extract_numeric, extract.py:48-49
ExtractNumeric ==
    /\ pc = "extract_numeric"
    /\ result' = Some(extract_numeric(text_in[1]))
    /\ pc' = "returned"
    /\ UNCHANGED <<_RULES, normalized_pages, blocks, block_index, questions, prev_q,
                   exam_doc, text_in>>
    /\ UNCHANGED <<in_path, batch_vars>>

NextNumeric == ExtractNumeric

SpecNumeric == InitNumeric /\ [][NextNumeric]_vars

NumericReturned == pc = "returned" /\ text_in # None /\ result # None

\* a signed decimal number as written: [sign] digits [separator digits]
IsDecimal(w) ==
    LET u == IF w # <<>> /\ w[1] \in {"-", "+"} THEN Tail(w) ELSE w
        seps == {i \in 1..Len(u) : u[i] \in {".", ","}}
    IN  /\ u # <<>>
        /\ \A i \in 1..Len(u) : IsDigit(u[i]) \/ i \in seps
        /\ Cardinality(seps) <= 1
        /\ 1 \notin seps /\ Len(u) \notin seps

WrittenAfter(label) ==
    LET i == CHOOSE i \in 1..Len(text_in[1]) : Head(text_in[1][i].txt) = label
    IN  text_in[1][i].cap[1]
HasLine(label) == \E i \in 1..Len(text_in[1]) : Head(text_in[1][i].txt) = label
HasComma(w) == \E i \in 1..Len(w) : w[i] = ","

\* C13: with an announcement followed by a decimal number and a "Respuesta:" line
\* followed by one, expected is the announced number as written and user the number
\* after the label as written; decimal_separator is "," exactly when the expected
\* value contains a comma, and "." otherwise, also when there is no expected value
C13_NumericAsWritten ==
    NumericReturned =>
        /\ (HasLine(SingularAnnouncement) /\ IsDecimal(WrittenAfter(SingularAnnouncement)))
               => result[1].expected = <<WrittenAfter(SingularAnnouncement)>>
        /\ (HasLine("Respuesta:") /\ IsDecimal(WrittenAfter("Respuesta:")))
               => result[1].user = Some(WrittenAfter("Respuesta:"))
        /\ result[1].numeric_format.decimal_separator =
               (IF result[1].expected # <<>> /\ HasComma(result[1].expected[1])
                THEN "," ELSE ".")

\* the announced number has a decimal comma, and so has the answer
C13_Witness ==
    /\ NumericReturned
    /\ result[1].expected = << <<"3", ",", "3">> >>
    /\ result[1].user = Some(<<"3", ".", "3">>)
    /\ HasLine("Respuesta:")
    /\ result[1].numeric_format.decimal_separator = ","

\* no expected value is found and the separator is the default
C13_WitnessNoExpected ==
    /\ NumericReturned
    /\ HasLine(SingularAnnouncement)
    /\ result[1].expected = <<>>
    /\ result[1].numeric_format.decimal_separator = "."

----------------------------------------------------------------------------
(* cli.py, _cmd_batch: _parse_pdf on each PDF of a directory, one after the other *)

MaxBatch == 3   \* entries of the directory

\* Path.suffix of the names of the runs
suffix(name) ==
    CASE name = "a.pdf" -> ".pdf" [] name = "b.PDF" -> ".PDF" [] OTHER -> ".txt"

BatchDocuments ==
    {PagesOf(FlatOfChunks(chunks)) :
        chunks \in {<<TextLine("Seleccione una:")>>,
                    <<TextLine("Correcta")>>,
                    <<TextLine("Seleccione una:"), TextLine("Correcta")>>,
                    <<Line(<<"Seleccione una:", "Incorrecta">>, <<>>), TextLine("Imagen")>>}}

\* an entry is a file: its name and, for a PDF, the normalized text of its pages; the
\* same file may come again (a directory converted a second time)
BatchEntries ==
    {[name |-> n, pages |-> d] : n \in {"a.pdf", "b.PDF"}, d \in BatchDocuments}
    \cup {[name |-> "notes.txt", pages |-> << <<>> >>]}

InitBatch ==
    /\ pc = "batch"
    /\ _RULES = RULES_1_0
    /\ in_dir \in SeqsUpTo(BatchEntries, MaxBatch)
    /\ pdf_index = 1
    /\ out_dir = <<>>
    /\ in_path = ""
    /\ normalized_pages = <<>>
    /\ blocks = <<>>
    /\ block_index = 0
    /\ questions = <<>>
    /\ prev_q = None
    /\ exam_doc = None
    /\ text_in = None
    /\ result = None

InBatch == pdf_index \in 1..Len(in_dir)

\* cli.py:167-168: an entry that is no PDF is passed over
SkipEntry ==
    /\ pc = "batch" /\ InBatch
    /\ Lower(suffix(in_dir[pdf_index].name)) # ".pdf"
    /\ pdf_index' = pdf_index + 1
    /\ UNCHANGED <<pc, _RULES, normalized_pages, blocks, block_index, questions, prev_q,
                   exam_doc, text_in, result, in_path, in_dir, out_dir>>

\* cli.py:166-173 and 58-63: the call of _parse_pdf on the entry, up to the
\* normalized pages; the locals of the call before are out of reach, and each is
\* assigned again before it is read
CallParsePdf ==
    /\ pc = "batch" /\ InBatch
    /\ Lower(suffix(in_dir[pdf_index].name)) = ".pdf"
    /\ in_path' = in_dir[pdf_index].name
    /\ normalized_pages' = in_dir[pdf_index].pages
    /\ pc' = "segment"
    /\ UNCHANGED <<_RULES, blocks, block_index, questions, prev_q, exam_doc, text_in,
                   result, in_dir, pdf_index, out_dir>>

\* cli.py:173-176: the record returned is written and the loop goes on
WriteJson ==
    /\ pc = "done" /\ InBatch
    /\ out_dir' = Append(out_dir, [name |-> in_path, doc |-> exam_doc[1]])
    /\ pdf_index' = pdf_index + 1
    /\ pc' = "batch"
    /\ UNCHANGED <<_RULES, normalized_pages, blocks, block_index, questions, prev_q,
                   exam_doc, text_in, result, in_path, in_dir>>

NextBatch ==
    SkipEntry \/ CallParsePdf \/ Segment \/ MergeGrading \/ AppendQuestion
    \/ BuildExamDoc \/ WriteJson

SpecBatch == InitBatch /\ [][NextBatch]_vars

\* the PDFs of the directory, in order: the k-th file written is of the k-th of them
PdfEntries == SelectSeq(in_dir, LAMBDA e : Lower(suffix(e.name)) = ".pdf")

\* C14: two runs of _parse_pdf on the same document (same file, same pages) with the
\* same rule table give identical records, whatever was converted between them
C14_SameDocumentSameRecord ==
    \A i, j \in 1..Len(out_dir) :
        PdfEntries[i] = PdfEntries[j] => out_dir[i].doc = out_dir[j].doc

\* the same document was converted twice, another one between the two runs
C14_Witness ==
    /\ Len(out_dir) = 3
    /\ PdfEntries[1] = PdfEntries[3] /\ PdfEntries[2].pages # PdfEntries[1].pages
    /\ out_dir[1].doc.questions # <<>>
    /\ out_dir[3].doc = out_dir[1].doc

\* the questions a document gives when it is converted on its own: its blocks in
\* order, from no question and no previous question
RECURSIVE QuestionsAlone(_, _)
QuestionsAlone(bs, qs) ==
    IF bs = <<>> THEN qs
    ELSE LET kind == detect_kind(_RULES, Head(bs).text)
             grad == extract_grading(_RULES, Head(bs).text).grad
         IN  IF is_grading_only(kind, grad) /\ qs # <<>>
             THEN QuestionsAlone(Tail(bs), [qs EXCEPT ![Len(qs)].grading = Some(grad)])
             ELSE QuestionsAlone(Tail(bs),
                                 Append(qs, new_question(_RULES, Head(bs), kind, grad)))

FirstBlockGradingOnly(pages) ==
    LET bs == segment_pages(_RULES, pages) IN
    /\ bs # <<>>
    /\ is_grading_only(detect_kind(_RULES, bs[1].text),
                       extract_grading(_RULES, bs[1].text).grad)

\* C20: in a batch, the record written for a document is the one the document gives
\* on its own, whatever was converted before it; a first block that carries only
\* grading becomes a question of its own document, and the files written before are
\* left as they were
C20_RecordIndependentOfBatch ==
    \A k \in 1..Len(out_dir) :
        /\ out_dir[k].name = PdfEntries[k].name
        /\ out_dir[k].doc.questions =
               QuestionsAlone(segment_pages(_RULES, PdfEntries[k].pages), <<>>)
        /\ out_dir[k].doc.source.page_count = Len(PdfEntries[k].pages)
        /\ FirstBlockGradingOnly(PdfEntries[k].pages) =>
               /\ out_dir[k].doc.questions # <<>>
               /\ out_dir[k].doc.questions[1].raw.block_text =
                      segment_pages(_RULES, PdfEntries[k].pages)[1].text

\* a document whose first block carries only grading was converted after a document
\* that ended with a question
C20_Witness ==
    /\ Len(out_dir) >= 2
    /\ out_dir[1].doc.questions # <<>>
    /\ FirstBlockGradingOnly(PdfEntries[2].pages)
    /\ out_dir[2].doc.questions # <<>>
    /\ out_dir[2].doc.questions[1].issues # <<>>

----------------------------------------------------------------------------
(* The rule table as loaded: yaml.safe_load gives a dict without the keys the file  *)
(* lacks, and the accessors read an absent key as an empty section                  *)

\* C15 (as claimed): no block is classified with partial or default rules: when
\* detect_kind has returned, the table that was loaded has its typing section and
\* the detectors in it (SpecKind starts from tables with and without them)
C15_NoDefaultRules ==
    (pc = "returned" /\ result # None) =>
        /\ _RULES.typing # None
        /\ _RULES.typing[1].detectors # None

----------------------------------------------------------------------------
(* detect_flags on its own: any flags section, any text of up to MaxFlagLines lines, *)
(* any content                                                                       *)

MaxFlagLines == 2

FlagLines ==
    {TextLine("imagen"), TextLine("[GRAFICO]"), TextLine("Figura"), TextLine("[formula]"),
     TextLine("[FORMULA]"), TextLine("[VIDEO]"), TextLine("otra cosa"),
     TextLine("opci<o'>n")}

FlagContents ==
    {[options |-> None],
     [options |-> Some(<<>>)],
     [options |-> Some(<<[key |-> "a", text |-> <<"x">>]>>)],
     [options |-> Some(<<[key |-> "a", text |-> <<"Paris">>]>>)],
     [options |-> Some(<<[key |-> "a", text |-> <<"Paris">>],
                         [key |-> "b", text |-> <<"x">>]>>)]}

AssetSections ==
    {None}
    \cup {Some([any_contains |-> c, any_regex |-> r, option_text_minlen |-> m]) :
             c \in {None, Some(<<"IMAGEN">>), Some(<<"no esta", "Imagen">>)},
             r \in {None, Some(<<Pattern("[grafico]", 0)>>),
                    Some(<<Pattern("\\bImagen\\b", 0), Pattern("\\u0046igura", 0),
                           Pattern("opci<o'>n", 0)>>)},
             m \in {None, Some(1), Some(9)}}

FlagsSections ==
    {None}
    \cup {Some([asset_required |-> a,
                math_or_symbols_risky |-> Some([any_regex |-> mr]),
                requires_external_media |-> Some([any_regex |-> er])]) :
             a \in AssetSections,
             mr \in {None, Some(<<Pattern("[formula]", 0)>>)},
             er \in {None, Some(<<Pattern("[video]", 0)>>)}}

InitFlags ==
    /\ pc = "detect_flags"
    /\ _RULES \in {[RULES_1_0 EXCEPT !.flags = f] : f \in FlagsSections}
    /\ \E t \in SeqsUpTo(FlagLines, MaxFlagLines), c \in FlagContents :
           text_in = Some([block_text |-> t, content |-> c])
    /\ result = None
    /\ normalized_pages = <<>>
    /\ blocks = <<>>
    /\ block_index = 0
    /\ questions = <<>>
    /\ prev_q = None
    /\ exam_doc = None
    /\ in_path = "a.pdf"
    /\ in_dir = <<>>
    /\ pdf_index = 0
    /\ out_dir = <<>>

\* a call of detect_flags, cli.py:99
DetectFlags ==
    /\ pc = "detect_flags"
    /\ result' = Some(detect_flags(_RULES, text_in[1].block_text, text_in[1].content))
    /\ pc' = "returned"
    /\ UNCHANGED <<_RULES, normalized_pages, blocks, block_index, questions, prev_q,
                   exam_doc, text_in>>
    /\ UNCHANGED <<in_path, batch_vars>>

NextFlags == DetectFlags

SpecFlags == InitFlags /\ [][NextFlags]_vars

FlagsReturned == pc = "returned" /\ text_in # None /\ result # None

\* the asset_required section of the table that was loaded, absent keys as None
AssetConfig ==
    IF _RULES.flags = None \/ _RULES.flags[1].asset_required = None
    THEN [any_contains |-> None, any_regex |-> None, option_text_minlen |-> None]
    ELSE _RULES.flags[1].asset_required[1]

\* the pattern an entry of the table declares: an entry written with escapes is read
\* as its decoding, an entry without escapes is the pattern itself
AsDeclared(pattern) ==
    IF pattern.lit = "opci<o'>n" THEN pattern ELSE unicode_escape(pattern)

\* the three reasons for asset_required, each read off the text, the content and the
\* table: a phrase of any_contains is in the text whatever the case; a pattern of
\* any_regex matches the text whatever the case; an option is shorter than
\* option_text_minlen (2 when the table does not set it)
PhraseFound ==
    AssetConfig.any_contains # None /\
    \E k \in 1..Len(AssetConfig.any_contains[1]) :
        \E i \in 1..Len(text_in[1].block_text) :
            \E j \in 1..Len(text_in[1].block_text[i].txt) :
                Lower(text_in[1].block_text[i].txt[j]) = Lower(AssetConfig.any_contains[1][k])
RegexFound ==
    AssetConfig.any_regex # None /\
    \E k \in 1..Len(AssetConfig.any_regex[1]) :
        \E i \in 1..Len(text_in[1].block_text) :
            \E j \in 1..Len(text_in[1].block_text[i].txt) :
                Lower(text_in[1].block_text[i].txt[j])
                    = Lower(AsDeclared(AssetConfig.any_regex[1][k]).lit)
ShortOption ==
    text_in[1].content.options # None /\
    \E k \in 1..Len(text_in[1].content.options[1]) :
        LET txt == text_in[1].content.options[1][k].text
            minlen == IF AssetConfig.option_text_minlen = None THEN 2
                      ELSE AssetConfig.option_text_minlen[1]
        IN  SumLen(txt) + Len(txt) - 1 < minlen

\* the table without the sections of the other two flags, and without the section of
\* asset_required
WithoutOtherFlags ==
    IF _RULES.flags = None THEN _RULES
    ELSE [_RULES EXCEPT !.flags = Some([@[1] EXCEPT !.math_or_symbols_risky = None,
                                                   !.requires_external_media = None])]
WithoutAssetRequired ==
    IF _RULES.flags = None THEN _RULES
    ELSE [_RULES EXCEPT !.flags = Some([@[1] EXCEPT !.asset_required = None])]

\* C18 (as claimed): asset_required is true exactly when a configured phrase is in the text
\* (whatever the case), or a configured regex matches the text (the code searches
\* with re.IGNORECASE), or an option of content.options is shorter, trimmed, than the
\* configured minimum; the sections of the other two flags do not change it, and its
\* section does not change them
C18_AssetRequiredExactly ==
    FlagsReturned =>
        /\ result[1].asset_required <=> (PhraseFound \/ RegexFound \/ ShortOption)
        /\ result[1].asset_required =
               detect_flags(WithoutOtherFlags, text_in[1].block_text,
                            text_in[1].content).asset_required
        /\ LET alone == detect_flags(WithoutAssetRequired, text_in[1].block_text,
                                     [options |-> None])
           IN  /\ result[1].math_or_symbols_risky = alone.math_or_symbols_risky
               /\ result[1].requires_external_media = alone.requires_external_media

\* asset_required for the short option alone, the other two flags not set
C18_Witness ==
    /\ FlagsReturned
    /\ ShortOption /\ ~PhraseFound /\ ~RegexFound
    /\ result[1] = [asset_required |-> TRUE, math_or_symbols_risky |-> FALSE,
                    requires_external_media |-> FALSE]

\* the other two flags set and asset_required not
C18_WitnessOthersOnly ==
    /\ FlagsReturned
    /\ result[1] = [asset_required |-> FALSE, math_or_symbols_risky |-> TRUE,
                    requires_external_media |-> TRUE]

----------------------------------------------------------------------------
(* validate/schema_validate.py: validate on a document, with jsonschema.validate as *)
(* the library defines it (the best match of the errors, raised as one exception)   *)

MaxQuestions == 2

ValidationError(message, path, context) ==
    [message |-> message, path |-> path, context |-> context]

SchemaKinds ==
    {"single_choice", "multi_select", "matching", "numeric", "short_answer_text",
     "multipart_short_answer", "cloze_labeled_blanks", "cloze_table",
     "external_media_reference"}

\* the errors of the questions, in order: kind is one of the closed set, grading is
\* null or an object (an anyOf, whose error carries the errors of its branches)
RECURSIVE question_errors(_, _)
question_errors(qs, i) ==
    IF i > Len(qs) THEN <<>>
    ELSE (IF qs[i].kind \notin SchemaKinds
          THEN <<ValidationError(<<"enum", "kind", i>>,
                                 <<"questions", DigitChar(i), "kind">>, <<>>)>>
          ELSE <<>>)
         \o (IF qs[i].grading \notin {"null", "object"}
             THEN <<ValidationError(
                        <<"anyOf", "grading", i>>, <<"questions", DigitChar(i), "grading">>,
                        <<ValidationError(<<"type", "null", i>>,
                                          <<"questions", DigitChar(i), "grading">>, <<>>),
                          ValidationError(<<"type", "object", i>>,
                                          <<"questions", DigitChar(i), "grading">>, <<>>)>>)>>
             ELSE <<>>)
         \o question_errors(qs, i + 1)

\* validator.iter_errors(instance) for the ExamDocument schema: the fields that are
\* required, then the constraints on each field that is there
iter_errors(data) ==
    (IF data.schema_version = None
     THEN <<ValidationError(<<"required", "schema_version">>, <<>>, <<>>)>> ELSE <<>>)
    \o (IF data.source = None
        THEN <<ValidationError(<<"required", "source">>, <<>>, <<>>)>> ELSE <<>>)
    \o (IF data.questions = None
        THEN <<ValidationError(<<"required", "questions">>, <<>>, <<>>)>> ELSE <<>>)
    \o (IF data.schema_version # None /\ data.schema_version # Some("1.0")
        THEN <<ValidationError(<<"const", "schema_version">>, <<"schema_version">>, <<>>)>>
        ELSE <<>>)
    \o (IF data.source # None /\ data.source[1].page_count < 0
        THEN <<ValidationError(<<"minimum", "page_count">>, <<"source", "page_count">>,
                               <<>>)>>
        ELSE <<>>)
    \o (IF data.questions # None THEN question_errors(data.questions[1], 1) ELSE <<>>)

\* jsonschema.exceptions.relevance: an error higher in the document is more relevant
relevance(error) == 0 - Len(error.path)

\* max(errors, key=relevance): the first of the most relevant errors
most_relevant(errors) ==
    errors[CHOOSE i \in 1..Len(errors) :
               /\ \A k \in 1..Len(errors) : relevance(errors[k]) <= relevance(errors[i])
               /\ \A k \in 1..(i - 1) : relevance(errors[k]) < relevance(errors[i])]

\* jsonschema.exceptions.best_match: the most relevant error; it gives way to the
\* least relevant error of its context unless the two least relevant ones tie
best_match(errors) ==
    IF errors = <<>> THEN None
    ELSE LET best == most_relevant(errors)
             ctx == best.context
             low == {i \in 1..Len(ctx) :
                        \A k \in 1..Len(ctx) : relevance(ctx[i]) <= relevance(ctx[k])}
         IN  IF ctx = <<>> \/ Cardinality(low) >= 2 THEN Some(best)
             ELSE Some(ctx[CHOOSE i \in low : TRUE])

\* schema_validate.py:31-50; exc is None when validate returns
validate(data) ==
    LET exc == best_match(iter_errors(data)) IN
    IF exc = None THEN [exc |-> None]
    ELSE [exc |-> Some([message |-> "JSON document failed schema validation",
                        errors |-> <<exc[1].message>>
                                   \o [k \in 1..Len(exc[1].context) |->
                                          exc[1].context[k].message]])]

ValidatedQuestions ==
    [kind : {"numeric", "unknown"}, grading : {"null", "object", "string"}]

ValidatedDocuments ==
    [schema_version : {None, Some("1.0"), Some("2.0")},
     source : {None} \cup {Some([page_count |-> n]) : n \in {-1, 0, 1}},
     questions : {None} \cup {Some(qs) : qs \in SeqsUpTo(ValidatedQuestions, MaxQuestions)}]

InitValidate ==
    /\ pc = "validate"
    /\ _RULES = RULES_1_0
    /\ text_in \in {Some(d) : d \in ValidatedDocuments}
    /\ result = None
    /\ normalized_pages = <<>>
    /\ blocks = <<>>
    /\ block_index = 0
    /\ questions = <<>>
    /\ prev_q = None
    /\ exam_doc = None
    /\ in_path = "a.json"
    /\ in_dir = <<>>
    /\ pdf_index = 0
    /\ out_dir = <<>>

\* cli.py:155, a call of validate that returns
ValidateReturns ==
    /\ pc = "validate"
    /\ validate(text_in[1]).exc = None
    /\ pc' = "returned"
    /\ UNCHANGED <<_RULES, normalized_pages, blocks, block_index, questions, prev_q,
                   exam_doc, text_in, result>>
    /\ UNCHANGED <<in_path, batch_vars>>

\* a call of validate that SchemaValidationError leaves
ValidateRaises ==
    /\ pc = "validate"
    /\ validate(text_in[1]).exc # None
    /\ result' = validate(text_in[1]).exc
    /\ pc' = "raised"
    /\ UNCHANGED <<_RULES, normalized_pages, blocks, block_index, questions, prev_q,
                   exam_doc, text_in>>
    /\ UNCHANGED <<in_path, batch_vars>>

NextValidate == ValidateReturns \/ ValidateRaises

SpecValidate == InitValidate /\ [][NextValidate]_vars

\* C19 (as claimed): the errors list of the SchemaValidationError raised names every
\* constraint the document violates
C19_EveryViolationListed ==
    (pc = "raised" /\ result # None) =>
        \A k \in 1..Len(iter_errors(text_in[1])) :
            \E j \in 1..Len(result[1].errors) :
                result[1].errors[j] = iter_errors(text_in[1])[k].message

----------------------------------------------------------------------------
(* typify.py, _match_condition on a condition tree and a text *)

MaxSubs == 2

CondLeaves ==
    {Contains("Seleccione una:"),
     Regex(Pattern("Verdadero", 0)),
     Regex(Pattern("opci<o'>n", 0)),
     RegexRepeated(Pattern("Verdadero", 0), Some(2)),
     RegexRepeated(Pattern("opci<o'>n", 0), None)}

\* any and all of leaves, then any and all of those and of leaves
CondInner ==
    {AnyOf(<<>>), AllOf(<<>>), Contains("Seleccione una:"),
     AnyOf(<<Contains("Seleccione una:"), Regex(Pattern("Verdadero", 0))>>),
     AllOf(<<Contains("Seleccione una:"), Regex(Pattern("opci<o'>n", 0))>>)}

Conditions ==
    CondLeaves
    \cup {AnyOf(subs) : subs \in SeqsUpTo(CondLeaves, MaxSubs)}
    \cup {AllOf(subs) : subs \in SeqsUpTo(CondLeaves, MaxSubs)}
    \cup {AnyOf(subs) : subs \in SeqsUpTo(CondInner, MaxSubs)}
    \cup {AllOf(subs) : subs \in SeqsUpTo(CondInner, MaxSubs)}

CondLines ==
    {TextLine("Seleccione una:"), TextLine("Verdadero"),
     Line(<<"Verdadero", "Verdadero">>, <<>>), TextLine("opci<o'>n")}

CondTexts == SeqsUpTo(CondLines, MaxSubs)

InitCondition ==
    /\ pc = "_match_condition"
    /\ _RULES = RULES_1_0
    /\ text_in \in {Some([text |-> t, condition |-> c]) : t \in CondTexts, c \in Conditions}
    /\ result = None
    /\ normalized_pages = <<>>
    /\ blocks = <<>>
    /\ block_index = 0
    /\ questions = <<>>
    /\ prev_q = None
    /\ exam_doc = None
    /\ in_path = "a.pdf"
    /\ in_dir = <<>>
    /\ pdf_index = 0
    /\ out_dir = <<>>

\* a call of _match_condition, typify.py:88
MatchCondition ==
    /\ pc = "_match_condition"
    /\ result' = Some(_match_condition(text_in[1].text, text_in[1].condition))
    /\ pc' = "returned"
    /\ UNCHANGED <<_RULES, normalized_pages, blocks, block_index, questions, prev_q,
                   exam_doc, text_in>>
    /\ UNCHANGED <<in_path, batch_vars>>

NextCondition == MatchCondition

SpecCondition == InitCondition /\ [][NextCondition]_vars

\* the truth of a condition as the rule table states it: the pattern as declared
RECURSIVE Holds(_, _)
Holds(c, text) ==
    CASE c.op = "contains" -> contains(c.arg.lit, text)
      [] c.op = "regex" -> contains(c.arg.lit, text)
      [] c.op = "regex_repeated" -> findall_count(c.arg, text) >= get(c.min_count, 1)
      [] c.op = "any" -> \E i \in 1..Len(c.subs) : Holds(c.subs[i], text)
      [] c.op = "all" -> \A i \in 1..Len(c.subs) : Holds(c.subs[i], text)

\* C23 (as claimed): _match_condition is the recursive boolean evaluation of the
\* condition: any is true iff a sub-condition is (false when there is none), all iff
\* every one is, contains iff the substring occurs, regex iff the pattern matches
\* somewhere, regex_repeated iff its non-overlapping matches are at least min_count
C23_EvaluatesCondition ==
    pc = "returned" => result = Some(Holds(text_in[1].condition, text_in[1].text))

----------------------------------------------------------------------------
(* The rule table over a run of calls of the four functions that read it *)

MaxCalls == 2
TableLen == 3

\* detectors of three priorities, declared in any order (also out of priority order)
TableDetectors ==
    {Detector(Some("single_choice"), Some(1), Some(<<Contains("Seleccione una:")>>)),
     Detector(Some("numeric"), Some(2), Some(<<Contains("Seleccione una:")>>)),
     Detector(Some("matching"), Some(3), Some(<<Contains("Correcta")>>))}

RuleTables ==
    {RULES_1_0}
    \cup {[RULES_1_0 EXCEPT !.typing = Some([detectors |-> Some(ds)])] :
             ds \in [1..TableLen -> TableDetectors]}

InitRules ==
    /\ pc = "calls"
    /\ _RULES \in RuleTables
    /\ text_in \in {Some(<<l>>) : l \in ContentLines}
    /\ result = <<>>
    /\ normalized_pages = <<>>
    /\ blocks = <<>>
    /\ block_index = 0
    /\ questions = <<>>
    /\ prev_q = None
    /\ exam_doc = None
    /\ in_path = "a.pdf"
    /\ in_dir = <<>>
    /\ pdf_index = 0
    /\ out_dir = <<>>

CanCall == pc = "calls" /\ Len(result) < MaxCalls

\* what the call returned, added to the returns so far
Returned(fn, ret) == Append(result, [fn |-> fn, ret |-> ret])

\* detectors.sort(...) in the table itself, which typify.py:85 does not do
CallDetectKind_sorts_in_place ==
    /\ CanCall
    /\ result' = Returned("detect_kind", <<detect_kind(_RULES, text_in[1])>>)
    /\ _RULES' = IF _RULES.typing = None \/ _RULES.typing[1].detectors = None
                 THEN _RULES
                 ELSE [_RULES EXCEPT !.typing =
                          Some([detectors |->
                                   Some(detectors_sorted(_RULES.typing[1].detectors[1]))])]
    /\ UNCHANGED <<pc, normalized_pages, blocks, block_index, questions, prev_q,
                   exam_doc, text_in>>
    /\ UNCHANGED <<in_path, batch_vars>>

\* typify.py:83-90: sorted() builds a new list, the table keeps its declared order
CallDetectKind ==
    /\ CanCall
    /\ result' = Returned("detect_kind", <<detect_kind(_RULES, text_in[1])>>)
    /\ UNCHANGED <<pc, _RULES, normalized_pages, blocks, block_index, questions, prev_q,
                   exam_doc, text_in>>
    /\ UNCHANGED <<in_path, batch_vars>>

\* segment.py:38-88, on the text as a page after a marker line
CallSegmentPages ==
    /\ CanCall
    /\ result' = Returned("segment_pages",
                          segment_pages(_RULES, <<<<MarkerLine("1")>> \o text_in[1]>>))
    /\ UNCHANGED <<pc, _RULES, normalized_pages, blocks, block_index, questions, prev_q,
                   exam_doc, text_in>>
    /\ UNCHANGED <<in_path, batch_vars>>

\* grading.py:21-112
CallExtractGrading ==
    /\ CanCall
    /\ result' = Returned("extract_grading", <<extract_grading(_RULES, text_in[1])>>)
    /\ UNCHANGED <<pc, _RULES, normalized_pages, blocks, block_index, questions, prev_q,
                   exam_doc, text_in>>
    /\ UNCHANGED <<in_path, batch_vars>>

\* flags.py:19-84
CallDetectFlags ==
    /\ CanCall
    /\ result' = Returned("detect_flags",
                          <<detect_flags(_RULES, text_in[1], [options |-> None])>>)
    /\ UNCHANGED <<pc, _RULES, normalized_pages, blocks, block_index, questions, prev_q,
                   exam_doc, text_in>>
    /\ UNCHANGED <<in_path, batch_vars>>

NextRules == CallSegmentPages \/ CallDetectKind \/ CallExtractGrading \/ CallDetectFlags

SpecRules == InitRules /\ [][NextRules]_vars

\* two calls of the same function on the same text returned the same
SameReturns ==
    \A i, j \in 1..Len(result) : result[i].fn = result[j].fn => result[i].ret = result[j].ret

\* C24: no call of segment_pages, detect_kind, extract_grading or detect_flags changes
\* the rule table (the priority sort of detect_kind leaves the declared order of the
\* detectors as it was), and a later call on the same text returns what the earlier did
C24_RulesReadOnly ==
    /\ [][_RULES' = _RULES]_vars
    /\ []SameReturns

C24_Witness ==
    /\ Len(result) = 2
    /\ result[1].fn = "detect_kind" /\ result[2].fn = "detect_kind"
    /\ result[2].ret = <<"numeric">>
    /\ _RULES.typing[1].detectors[1][1].kind = Some("single_choice")
    /\ _RULES.typing[1].detectors[1][2].kind = Some("numeric")

----------------------------------------------------------------------------
(* extract_cloze_labeled_blanks on a block of labeled lines *)

MaxClozeLines == 3

ClozeLines ==
    {Line(<<"TP:", "5">>, <<>>),
     Line(<<"TP:", "7", "[v]">>, <<>>),
     Line(<<"TP:", "5", "[V]">>, <<>>),
     Line(<<"TN:", "7", "[x]">>, <<>>),
     Line(<<"TN:", "7">>, <<>>),
     Line(<<"TP:", "[v]">>, <<>>),
     Line(<<"tal vez">>, <<>>),
     Line(<<"La respuesta correcta es:", "TP:", "7", ",", "TN:", "5">>, <<>>)}

ClozeTexts == SeqsUpTo(ClozeLines, MaxClozeLines)

InitCloze ==
    /\ pc = "extract_cloze_labeled_blanks"
    /\ _RULES = RULES_1_0
    /\ text_in \in {Some(t) : t \in ClozeTexts}
    /\ result = None
    /\ normalized_pages = <<>>
    /\ blocks = <<>>
    /\ block_index = 0
    /\ questions = <<>>
    /\ prev_q = None
    /\ exam_doc = None
    /\ in_path = "a.pdf"
    /\ in_dir = <<>>
    /\ pdf_index = 0
    /\ out_dir = <<>>

\* a call of extract_cloze_labeled_blanks, extract.py:48-49
ExtractClozeLabeledBlanks ==
    /\ pc = "extract_cloze_labeled_blanks"
    /\ result' = Some(extract_cloze_labeled_blanks(text_in[1]))
    /\ pc' = "returned"
    /\ UNCHANGED <<_RULES, normalized_pages, blocks, block_index, questions, prev_q,
                   exam_doc, text_in>>
    /\ UNCHANGED <<in_path, batch_vars>>

NextCloze == ExtractClozeLabeledBlanks

SpecCloze == InitCloze /\ [][NextCloze]_vars

ClozeReturned == pc = "returned" /\ result # None

\* the labeled values of the text in order: the label, and the value as written
LabeledValues == blank_matches(text_in[1], 1)

ValueOf(m) == without_glyphs(m.text)

\* the labeled values of a label that were seen with an expected (a user) value
ExpectedOf(label) ==
    SelectSeq(LabeledValues, LAMBDA m : m.label = label /\ blank_of(m).expected # None)
UserOf(label) ==
    SelectSeq(LabeledValues, LAMBDA m : m.label = label /\ blank_of(m).user # None)

\* C25 (as claimed): the blanks hold at most one record per label, and the expected and
\* the user value of a record are the first ones seen for its label: neither a later
\* labeled value nor the correct-answer section replaces them
C25_FirstSeenKept ==
    ClozeReturned =>
        LET blanks == result[1].blanks IN
        /\ \A i, j \in 1..Len(blanks) : blanks[i].label = blanks[j].label => i = j
        /\ \A i \in 1..Len(blanks) :
               /\ ExpectedOf(blanks[i].label) # <<>> =>
                      blanks[i].expected = Some(ValueOf(ExpectedOf(blanks[i].label)[1]))
               /\ UserOf(blanks[i].label) # <<>> =>
                      blanks[i].user = Some(ValueOf(UserOf(blanks[i].label)[1]))

AnyCheckmark == {"[x]", "[v]", "[V]"}
BearsCheckmark(m) == \E j \in 1..Len(m.text) : m.text[j] \in AnyCheckmark

\* a text without a correct-answer section in which the label is written once
WrittenOnce(label) ==
    /\ Len(SelectSeq(LabeledValues, LAMBDA m : m.label = label)) = 1
    /\ ~contains_lower(SingularAnnouncement, text_in[1])

\* C26 (as claimed): a labeled value with a checkmark glyph (any of the three) is
\* recorded as the user value of its blank and not as the expected one; a labeled value
\* without one is recorded as expected
C26_CheckmarkMeansUser ==
    ClozeReturned =>
        \A k \in 1..Len(LabeledValues) :
            LET m == LabeledValues[k] IN
            (WrittenOnce(m.label) /\ ValueOf(m) # <<>>) =>
                \E i \in 1..Len(result[1].blanks) :
                    LET b == result[1].blanks[i] IN
                    /\ b.label = m.label
                    /\ BearsCheckmark(m) => (b.user = Some(ValueOf(m)) /\ b.expected = None)
                    /\ ~BearsCheckmark(m) => (b.expected = Some(ValueOf(m)) /\ b.user = None)

----------------------------------------------------------------------------
(* extract_grading on blocks with status markers and feedback phrases *)

MaxGradingLines == 3

\* the three categories with their markers, any of them, in any table order
StatusMarkerTables ==
    {items \in SeqsUpTo({<<"correct", "Correcta">>,
                         <<"partial", "Parcialmente correcta">>,
                         <<"incorrect", "Incorrecta">>}, 3) :
        \A i, j \in 1..Len(items) : items[i] = items[j] => i = j}

GradingLines ==
    {TextLine("Correcta"), TextLine("Incorrecta"), TextLine("Parcialmente correcta"),
     Line(<<"Correcto!", LongPhrase>>, <<>>), Line(<<"No existe", "x">>, <<>>),
     TextLine("Efectivamente"), TextLine("EFECTIVAMENTE"), TextLine(LongPhrase)}

InitGradingText ==
    /\ pc = "extract_grading"
    /\ _RULES \in {[RULES_1_0 EXCEPT !.grading = Some([@[1] EXCEPT !.status_markers = sm])] :
                      sm \in {None} \cup {Some(items) : items \in StatusMarkerTables}}
    /\ text_in \in {Some(t) : t \in SeqsUpTo(GradingLines, MaxGradingLines)}
    /\ result = None
    /\ normalized_pages = <<>>
    /\ blocks = <<>>
    /\ block_index = 0
    /\ questions = <<>>
    /\ prev_q = None
    /\ exam_doc = None
    /\ in_path = "a.pdf"
    /\ in_dir = <<>>
    /\ pdf_index = 0
    /\ out_dir = <<>>

NextGradingText == ExtractGradingReturns

SpecGradingText == InitGradingText /\ [][NextGradingText]_vars

GradingReturned == pc = "returned" /\ result # None

\* the fixed patterns that match the text, by their place in the list
MatchingFeedback ==
    {k \in 1..Len(feedback_patterns) : search_line(feedback_patterns[k], text_in[1], TRUE) # 0}
FirstFeedbackSpan ==
    feedback_span(feedback_patterns[CHOOSE k \in MatchingFeedback :
                                        \A m \in MatchingFeedback : k <= m],
                  text_in[1])

\* C27 (as claimed): feedback is decided by the first fixed pattern, in order, that
\* matches the text: its span is the feedback when shorter than the maximum length,
\* and otherwise feedback is null; a feedback returned is shorter than the maximum
C27_FeedbackFromFirstMatch ==
    GradingReturned =>
        /\ MatchingFeedback = {} => result[1].feedback = None
        /\ MatchingFeedback # {} =>
               result[1].feedback = IF len(FirstFeedbackSpan) < FeedbackMaxLen
                                    THEN Some(FirstFeedbackSpan) ELSE None
        /\ result[1].feedback # None => len(result[1].feedback[1]) < FeedbackMaxLen

ConfiguredMarkers ==
    get(get(_RULES.grading, [status_markers |-> None]).status_markers, <<>>)
MarkersFound ==
    {i \in 1..Len(ConfiguredMarkers) : contains(ConfiguredMarkers[i][2], text_in[1])}
Canonical(status_type) ==
    CASE status_type = "correct" -> "Correcta"
      [] status_type = "partial" -> "Parcialmente correcta"
      [] status_type = "incorrect" -> "Incorrecta"

\* C28: status is decided by the first category, in the order of the table, whose
\* marker occurs in the text, and is then its canonical display string; status is null
\* exactly when no configured marker occurs in the text
C28_StatusFirstMarker ==
    GradingReturned =>
        /\ result[1].status = None <=> MarkersFound = {}
        /\ MarkersFound # {} =>
               /\ result[1].status =
                      Some(Canonical(ConfiguredMarkers[CHOOSE i \in MarkersFound :
                                                           \A k \in MarkersFound : i <= k][1]))
               /\ result[1].status[1] \in {"Correcta", "Parcialmente correcta", "Incorrecta"}

C28_Witness ==
    /\ GradingReturned
    /\ Len(ConfiguredMarkers) = 3
    /\ ConfiguredMarkers[1][1] = "incorrect" /\ ConfiguredMarkers[3][1] = "correct"
    /\ MarkersFound = {1, 3}
    /\ text_in[1][1] = TextLine("Correcta")
    /\ result[1].status = Some("Incorrecta")

----------------------------------------------------------------------------
(* renderers/ubuvirtual.py: the opening tag of render_question_stub. A status is the *)
(* sequence of its characters, so that "in" is the substring test the code makes     *)

MaxNumber == 3

Chars_correcta == <<"c", "o", "r", "r", "e", "c", "t", "a">>
Status_Correcta == <<"C">> \o Tail(Chars_correcta)
Status_Incorrecta == <<"I", "n">> \o Chars_correcta
Status_Parcialmente_correcta ==
    <<"P", "a", "r", "c", "i", "a", "l", "m", "e", "n", "t", "e", " ">> \o Chars_correcta

\* str.lower()
str_lower(s) ==
    [i \in 1..Len(s) |-> CASE s[i] = "C" -> "c" [] s[i] = "I" -> "i" [] s[i] = "P" -> "p"
                           [] OTHER -> s[i]]

\* sub in s
in_str(sub, s) ==
    \E i \in 0..(Len(s) - Len(sub)) : SubSeq(s, i + 1, i + Len(sub)) = sub

\* ubuvirtual.py:136-149
_kind_to_moodle_class(kind) ==
    CASE kind \in {"single_choice", "multi_select"} -> "multichoice"
      [] kind = "matching" -> "match"
      [] kind = "numeric" -> "numerical"
      [] kind \in {"short_answer_text", "multipart_short_answer"} -> "shortanswer"
      [] kind \in {"cloze_labeled_blanks", "cloze_table", "external_media_reference"}
            -> "multianswer"
      [] OTHER -> "shortanswer"

\* ubuvirtual.py:152-163; status is None or Some(characters)
_status_to_class(status) ==
    IF status = None \/ status = Some(<<>>) THEN ""
    ELSE LET status_lower == str_lower(status[1]) IN
         IF in_str(Chars_correcta, status_lower)
            \/ in_str(SubSeq(Chars_correcta, 1, 7), status_lower)
         THEN "correct"
         ELSE IF in_str(<<"i", "n">> \o Chars_correcta, status_lower)
                 \/ in_str(<<"i", "n">> \o SubSeq(Chars_correcta, 1, 7), status_lower)
         THEN "incorrect"
         ELSE IF in_str(<<"p", "a", "r", "c", "i", "a", "l">>, status_lower)
                 \/ in_str(<<"p", "a", "r", "t", "i", "a", "l">>, status_lower)
         THEN "partiallycorrect"
         ELSE ""

\* ubuvirtual.py:55-74: the id and the classes of the div (strip drops the space that
\* an empty status class leaves), and the status shown in the info section (79-80)
render_question_stub(q) ==
    LET status == IF q.grading # None THEN q.grading[1].status ELSE None
        status_class == _status_to_class(status)
    IN  [id |-> <<"question-", q.id>>,
         classes |-> <<"que", _kind_to_moodle_class(q.kind), "deferredfeedback">>
                     \o (IF status_class = "" THEN <<>> ELSE <<status_class>>),
         state |-> IF status # None /\ status # Some(<<>>) THEN status ELSE None]

RenderedQuestions ==
    {[id |-> <<"Q", n>>, number |-> n, kind |-> k, grading |-> g] :
        n \in 1..MaxNumber,
        k \in SchemaKinds \cup {"unknown"},
        g \in {None}
              \cup {Some([status |-> st, score_awarded |-> sc, score_max |-> sc,
                          penalty_rule_text |-> None, feedback |-> None]) :
                       st \in {None, Some(Status_Correcta), Some(Status_Incorrecta),
                               Some(Status_Parcialmente_correcta)},
                       sc \in {None, Some(1)}}}

InitRender ==
    /\ pc = "render_question_stub"
    /\ _RULES = RULES_1_0
    /\ text_in \in {Some(q) : q \in RenderedQuestions}
    /\ result = None
    /\ normalized_pages = <<>>
    /\ blocks = <<>>
    /\ block_index = 0
    /\ questions = <<>>
    /\ prev_q = None
    /\ exam_doc = None
    /\ in_path = "a.json"
    /\ in_dir = <<>>
    /\ pdf_index = 0
    /\ out_dir = <<>>

\* a call of render_question_stub, ubuvirtual.py:37
RenderQuestionStub ==
    /\ pc = "render_question_stub"
    /\ result' = Some(render_question_stub(text_in[1]))
    /\ pc' = "returned"
    /\ UNCHANGED <<_RULES, normalized_pages, blocks, block_index, questions, prev_q,
                   exam_doc, text_in>>
    /\ UNCHANGED <<in_path, batch_vars>>

NextRender == RenderQuestionStub

SpecRender == InitRender /\ [][NextRender]_vars

\* the state classes among the classes of the div
StateClasses ==
    {result[1].classes[i] : i \in 1..Len(result[1].classes)}
        \cap {"correct", "incorrect", "partiallycorrect"}
StatusRendered == IF text_in[1].grading = None THEN None ELSE text_in[1].grading[1].status

\* C30 (as claimed): the div of a question has the state class of its status: correct
\* for "Correcta", incorrect for "Incorrecta", partiallycorrect for "Parcialmente
\* correcta", and no state class when the status is null
C30_StatusClass ==
    (pc = "returned" /\ result # None) =>
        StateClasses = CASE StatusRendered = Some(Status_Correcta) -> {"correct"}
                         [] StatusRendered = Some(Status_Incorrecta) -> {"incorrect"}
                         [] StatusRendered = Some(Status_Parcialmente_correcta)
                               -> {"partiallycorrect"}
                         [] OTHER -> {}

====
